---- MODULE Spec2Model ----
(***************************************************************************)
(* Behavioural-fingerprint engine of the trading coach: the bias detector  *)
(* (bias.js), the metrics engine (metrics.js) and the analysis handler     *)
(* that runs them over one session's trade sequence.                       *)
(*                                                                         *)
(* Numbers.  JavaScript numbers are modelled exactly: an integer is an     *)
(* Int, a fraction is a reduced rational [n |-> Int, d |-> Int > 0], and   *)
(* the result of Math.sqrt is kept as the rational under the root.  A      *)
(* nullable value is <<>> (null / Invalid Date) or <<v>>.  Timestamps are  *)
(* whole seconds since the epoch (the code holds milliseconds).            *)
(***************************************************************************)
EXTENDS Integers, Sequences, FiniteSets, TLC

VARIABLES trades, pc, biases, userMetrics, normalizedMetrics, chart, userVector,
          portfolioMetrics, userVec, investorVec, alignment,
          sessionTrades, sessionPortfolioMetrics, lastUserTradesResult, store,
          uploadPc, refresh, response, got,
          investors, scored, points, biasMeta, req, pool, coach

\* one run of the engine functions on a trade sequence
engineVars ==
  <<trades, pc, biases, userMetrics, normalizedMetrics, chart, userVector>>
\* one comparison of a user vector with an investor vector
compareVars == <<portfolioMetrics, userVec, investorVec, alignment>>
\* the server's module-level state and its requests in flight
serverVars ==
  <<sessionTrades, sessionPortfolioMetrics, lastUserTradesResult, store,
    uploadPc, refresh, response, got>>

\* the investor ranking, the timeline view, the store connections of a
\* request and one call of the coach
sideVars == <<investors, scored, points, biasMeta, req, pool, coach>>

vars == <<engineVars, compareVars, serverVars, sideVars>>

-----------------------------------------------------------------------------
(* Bounds of the checked input space.                                      *)

\* longest trade sequence of the enumerated input families
MaxTrades == 3
\* largest per-day trade count of the two-day volume family
MaxPerDay == 30
\* largest per-day trade count of the three-day volume family
MaxSmallDay == 3

-----------------------------------------------------------------------------
(* Program constants.                                                      *)

SecPerMin == 60
SecPerDay == 86400
SingleDayFull == 15
RevengeWindowMin == 10
LossRatioSentinel == 999
FreqScale == 20
SizeScale == 5000
HoldScale == 90
WorstLossCount == 5
PrevLossGapMin == 15

-----------------------------------------------------------------------------
(* Nullable values and exact arithmetic.                                   *)

Null == <<>>
Some(x) == <<x>>
IsNull(x) == x = <<>>
Val(x) == x[1]

Abs(x) == IF x < 0 THEN -x ELSE x
Min(a, b) == IF a <= b THEN a ELSE b
Max(a, b) == IF a >= b THEN a ELSE b

RECURSIVE Gcd(_, _)
Gcd(a, b) == IF b = 0 THEN a ELSE Gcd(b, a % b)

\* the reduced fraction n/d, d > 0
Rat(n, d) ==
  LET g == Gcd(Abs(n), d)
  IN  IF n = 0 THEN [n |-> 0, d |-> 1] ELSE [n |-> n \div g, d |-> d \div g]

RInt(i) == [n |-> i, d |-> 1]
RLeq(a, b) == a.n * b.d <= b.n * a.d
RLt(a, b) == a.n * b.d < b.n * a.d
Lcm(a, b) == (a \div Gcd(a, b)) * b
RAdd(a, b) ==
  LET l == Lcm(a.d, b.d)
  IN  Rat(a.n * (l \div a.d) + b.n * (l \div b.d), l)
RNeg(a) == [n |-> -a.n, d |-> a.d]
RSub(a, b) == RAdd(a, RNeg(b))
RMul(a, b) == Rat(a.n * b.n, a.d * b.d)
\* a / b for b > 0
RDiv(a, b) == Rat(a.n * b.d, a.d * b.n)
RDivInt(a, k) == Rat(a.n, a.d * k)

\* Math.round: the nearest integer, a tie going up
Round(r) == (2 * r.n + r.d) \div (2 * r.d)
\* Math.ceil
Ceil(r) == -((-r.n) \div r.d)

\* the sum of a sequence of integers, added up by halves
SumSeq(s) ==
  LET RECURSIVE In(_, _)
      In(lo, hi) ==
        IF lo > hi THEN 0
        ELSE IF lo = hi THEN s[lo]
        ELSE In(lo, (lo + hi) \div 2) + In((lo + hi) \div 2 + 1, hi)
  IN  In(1, Len(s))

RECURSIVE MaxSeq(_)
MaxSeq(s) == IF Len(s) = 1 THEN s[1] ELSE Max(Head(s), MaxSeq(Tail(s)))

RECURSIVE InsertSorted(_, _)
InsertSorted(x, s) ==
  IF s = <<>> THEN <<x>>
  ELSE IF x < Head(s) THEN <<x>> \o s
  ELSE <<Head(s)>> \o InsertSorted(x, Tail(s))

RECURSIVE SortAsc(_)
\* [...nums].sort((a, b) => a - b)
SortAsc(s) == IF s = <<>> THEN <<>> ELSE InsertSorted(Head(s), SortAsc(Tail(s)))

-----------------------------------------------------------------------------
(* bias.js helpers.                                                        *)

\* median taking the lower middle element of an even-length list
median_lower(nums) ==
  IF Len(nums) = 0 THEN RInt(0)
  ELSE RInt(SortAsc(nums)[(Len(nums) + 1) \div 2])

\* median(nums): the middle element, or the mean of the two middle ones
median(nums) ==
  IF Len(nums) = 0 THEN RInt(0)
  ELSE LET arr == SortAsc(nums)
           mid == Len(arr) \div 2
       IN  IF Len(arr) % 2 = 1 THEN RInt(arr[mid + 1])
           ELSE Rat(arr[mid] + arr[mid + 1], 2)

\* clamp without its upper limit
clamp_noUpper(min, x, max) == Max(min, x)

\* clamp(min, x, max) = Math.max(min, Math.min(max, x))
clamp(min, x, max) == Max(min, Min(max, x))

\* a trade's pl is a finite number (a NaN pl behaves as a null one)
FinitePl(t) == ~IsNull(t.pl)

\* hasValidPL looking at the first trade only
hasValidPL_first(ts) == Len(ts) > 0 /\ FinitePl(ts[1])

hasValidPL(ts) == \E i \in 1..Len(ts) : FinitePl(ts[i])

\* minutesBetween(a, b) on two Dates; <<>> is NaN (an Invalid Date operand)
minutesBetween(a, b) ==
  IF IsNull(a) \/ IsNull(b) THEN Null
  ELSE Some(Round(Rat(Val(b) - Val(a), SecPerMin)))

\* t.ts.toISOString().slice(0, 10): the UTC day of a valid timestamp
DayOf(t) == Val(t.ts) \div SecPerDay

ValidTs(t) == ~IsNull(t.ts)

\* keys of the byDay Map in insertion order: the day of each trade from the
\* k-th on whose day is not in `seen' and on no trade between
DayKeysFrom(ts, k, seen) ==
  LET IsNew(i) ==
        /\ ValidTs(ts[i])
        /\ DayOf(ts[i]) \notin seen
        /\ ~\E j \in k..(i - 1) : ValidTs(ts[j]) /\ DayOf(ts[j]) = DayOf(ts[i])
      RECURSIVE In(_, _)
      In(lo, hi) ==
        IF lo > hi THEN <<>>
        ELSE IF lo = hi THEN (IF IsNew(lo) THEN <<DayOf(ts[lo])>> ELSE <<>>)
        ELSE In(lo, (lo + hi) \div 2) \o In((lo + hi) \div 2 + 1, hi)
  IN  In(k, Len(ts))

DayKeys(ts) == DayKeysFrom(ts, 1, {})

CountOnDay(ts, day) ==
  Cardinality({i \in 1..Len(ts) : ValidTs(ts[i]) /\ DayOf(ts[i]) = day})

\* [...byDay.values()].map(arr => arr.length)
TradesPerDay(ts) ==
  LET keys == DayKeys(ts)
  IN  [j \in 1..Len(keys) |-> CountOnDay(ts, keys[j])]

-----------------------------------------------------------------------------
(* computeBiases, 1) overtrading.                                          *)

RECURSIVE OverEvidenceFrom_strict(_, _, _, _)
\* the days whose count exceeds ceil(2 * median)
OverEvidenceFrom_strict(keys, counts, med, j) ==
  IF j > Len(keys) THEN <<>>
  ELSE (IF RLt(RInt(0), med) /\ counts[j] > Ceil(RMul(med, RInt(2)))
        THEN <<[day |-> keys[j], trades |-> counts[j], baselineMedian |-> med]>>
        ELSE <<>>) \o OverEvidenceFrom_strict(keys, counts, med, j + 1)

RECURSIVE OverEvidenceFrom(_, _, _, _)
\* the days whose count reaches ceil(2 * median), in Map order
OverEvidenceFrom(keys, counts, med, j) ==
  IF j > Len(keys) THEN <<>>
  ELSE (IF RLt(RInt(0), med) /\ counts[j] >= Ceil(RMul(med, RInt(2)))
        THEN <<[day |-> keys[j], trades |-> counts[j], baselineMedian |-> med]>>
        ELSE <<>>) \o OverEvidenceFrom(keys, counts, med, j + 1)

\* the score of a single-day dataset
SingleDayScore(count) ==
  clamp(0, Round(RMul(Rat(count, SingleDayFull), RInt(100))), 100)

\* the score of a dataset of two or more days
MultiDayScore(tradesPerDay) ==
  LET med == median(tradesPerDay)
      maxDay == MaxSeq(tradesPerDay)
      ratio == IF RLt(RInt(0), med) THEN RDiv(RInt(maxDay), med) ELSE RInt(maxDay)
  IN  clamp(0, Round(RMul(RSub(ratio, RInt(1)), RInt(50))), 100)

Overtrading(ts) ==
  LET tradesPerDay == TradesPerDay(ts)
      dayKeys == DayKeys(ts)
  IN  IF Len(tradesPerDay) = 0 THEN [score |-> 0, evidence |-> <<>>]
      ELSE IF Len(tradesPerDay) = 1
      THEN [score |-> SingleDayScore(tradesPerDay[1]),
            evidence |-> <<[day |-> dayKeys[1], trades |-> tradesPerDay[1],
                            rule |-> "single-day volume heuristic"]>>]
      ELSE [score |-> MultiDayScore(tradesPerDay),
            evidence |-> OverEvidenceFrom(dayKeys, tradesPerDay,
                                          median(tradesPerDay), 1)]

-----------------------------------------------------------------------------
(* computeBiases, 2) revenge trading.                                      *)

IsLoss(t) == FinitePl(t) /\ Val(t.pl) < 0

\* the loss at position idx is followed closely enough by trades[idx + 1]
IsTrigger(ts, idx) ==
  /\ idx + 1 <= Len(ts)
  /\ LET mins == minutesBetween(ts[idx].ts, ts[idx + 1].ts)
     IN  ~IsNull(mins) /\ Val(mins) <= RevengeWindowMin

\* next.notional > t.notional * 1.15
SizeUp(t, next) ==
  /\ ~IsNull(t.notional)
  /\ ~IsNull(next.notional)
  /\ 100 * Val(next.notional) > 115 * Val(t.notional)

\* the evidence pushed by the loop from index idx on, in loop order
RevengeEvidenceFrom(ts, idx) ==
  LET At(i) ==
        IF IsLoss(ts[i]) /\ IsTrigger(ts, i)
        THEN <<[lossTradeId |-> ts[i].tradeId,
                nextTradeId |-> ts[i + 1].tradeId,
                minutesAfterLoss |-> Val(minutesBetween(ts[i].ts, ts[i + 1].ts)),
                sizeUp |-> SizeUp(ts[i], ts[i + 1])]>>
        ELSE <<>>
      RECURSIVE In(_, _)
      In(lo, hi) ==
        IF lo > hi THEN <<>>
        ELSE IF lo = hi THEN At(lo)
        ELSE In(lo, (lo + hi) \div 2) \o In((lo + hi) \div 2 + 1, hi)
  IN  In(idx, Len(ts))

Revenge(ts) ==
  IF ~hasValidPL(ts)
  THEN [score |-> 0, evidence |-> <<>>, insufficientData |-> TRUE]
  ELSE LET losses == {i \in 1..Len(ts) : IsLoss(ts[i])}
           evidence == RevengeEvidenceFrom(ts, 1)
           triggers == Len(evidence)
           lossCount == IF Cardinality(losses) = 0 THEN 1 ELSE Cardinality(losses)
           rate == Rat(triggers, lossCount)
       IN  [score |-> clamp(0, Round(RMul(rate, RInt(100))), 100),
            evidence |-> evidence,
            insufficientData |-> FALSE]

-----------------------------------------------------------------------------
(* computeBiases, 3) loss aversion.                                        *)

\* trades.map(t => t.pl).filter(...): the positive pl values (sign = 1) or
\* the absolute values of the negative ones (sign = -1)
PlWhere(ts, k, sign) ==
  LET RECURSIVE In(_, _)
      In(lo, hi) ==
        IF lo > hi THEN <<>>
        ELSE IF lo = hi
        THEN (IF FinitePl(ts[lo]) /\ sign * Val(ts[lo].pl) > 0
              THEN <<Abs(Val(ts[lo].pl))>> ELSE <<>>)
        ELSE In(lo, (lo + hi) \div 2) \o In((lo + hi) \div 2 + 1, hi)
  IN  In(k, Len(ts))

\* xs.length ? sum / xs.length : 0
MeanOrZero(xs) == IF Len(xs) = 0 THEN RInt(0) ELSE Rat(SumSeq(xs), Len(xs))

\* the breakpoints with each boundary value in the upper band
RatioScore_strict(ratio) ==
  IF RLt(ratio, Rat(105, 100)) THEN 0
  ELSE IF RLt(ratio, Rat(15, 10)) THEN 30
  ELSE IF RLt(ratio, RInt(2)) THEN 60
  ELSE IF RLt(ratio, RInt(3)) THEN 85
  ELSE 100

\* the breakpoints of the loss/win ratio
RatioScore(ratio) ==
  IF RLeq(ratio, Rat(105, 100)) THEN 0
  ELSE IF RLeq(ratio, Rat(15, 10)) THEN 30
  ELSE IF RLeq(ratio, RInt(2)) THEN 60
  ELSE IF RLeq(ratio, RInt(3)) THEN 85
  ELSE 100

\* Number(x.toFixed(2)) of a non-negative x
ToFixed2(r) == Rat(Round(RMul(r, RInt(100))), 100)

LossWinRatio(avgWin, avgLoss) ==
  IF RLt(RInt(0), avgWin) THEN RDiv(avgLoss, avgWin)
  ELSE IF RLt(RInt(0), avgLoss) THEN RInt(LossRatioSentinel)
  ELSE RInt(0)

LossAversion(ts) ==
  IF ~hasValidPL(ts)
  THEN [score |-> 0, evidence |-> <<>>, insufficientData |-> TRUE]
  ELSE LET avgWin == MeanOrZero(PlWhere(ts, 1, 1))
           avgLoss == MeanOrZero(PlWhere(ts, 1, -1))
           ratio == LossWinRatio(avgWin, avgLoss)
       IN  [score |-> RatioScore(ratio),
            evidence |-> <<[avgWin |-> ToFixed2(avgWin),
                            avgLoss |-> ToFixed2(avgLoss),
                            lossWinRatio |->
                              ToFixed2(IF RLt(RInt(0), avgWin)
                                       THEN RDiv(avgLoss, avgWin) ELSE RInt(0))]>>,
            insufficientData |-> FALSE]

computeBiases(ts) ==
  [overtrading |-> Overtrading(ts),
   revenge |-> Revenge(ts),
   lossAversion |-> LossAversion(ts)]

-----------------------------------------------------------------------------
(* metrics.js.                                                             *)

\* the sum of a sequence of rationals, added up by halves
SumRat(xs) ==
  LET RECURSIVE In(_, _)
      In(lo, hi) ==
        IF lo > hi THEN RInt(0)
        ELSE IF lo = hi THEN xs[lo]
        ELSE RAdd(In(lo, (lo + hi) \div 2), In((lo + hi) \div 2 + 1, hi))
  IN  In(1, Len(xs))

\* mean(xs) over a sequence of rationals
mean(xs) == IF Len(xs) = 0 THEN RInt(0) ELSE RDivInt(SumRat(xs), Len(xs))

\* the number Math.sqrt(r), kept as the rational under the root
SqrtOf(r) == [sq |-> r]

\* stddev(xs): the population standard deviation
stddev(xs) ==
  IF Len(xs) < 2 THEN SqrtOf(RInt(0))
  ELSE LET m == mean(xs)
           sqDev == [i \in 1..Len(xs) |-> RMul(RSub(xs[i], m), RSub(xs[i], m))]
       IN  SqrtOf(RDivInt(SumRat(sqDev), Len(xs)))

\* the finite notionals greater than 0, in sequence order
SizesFrom(ts, k) ==
  LET RECURSIVE In(_, _)
      In(lo, hi) ==
        IF lo > hi THEN <<>>
        ELSE IF lo = hi
        THEN (IF ~IsNull(ts[lo].notional) /\ Val(ts[lo].notional) > 0
              THEN <<RInt(Val(ts[lo].notional))>> ELSE <<>>)
        ELSE In(lo, (lo + hi) \div 2) \o In((lo + hi) \div 2 + 1, hi)
  IN  In(k, Len(ts))

\* pct_trades_after_loss divided by the number of trades with a pl, less one
PctTradesAfterLoss_filtered(ts) ==
  LET plNums == {i \in 1..Len(ts) : FinitePl(ts[i])}
      lossCount == Cardinality({i \in 1..(Len(ts) - 1) : IsLoss(ts[i])})
  IN  IF Cardinality(plNums) >= 2
      THEN Some(IF lossCount # 0 THEN Rat(lossCount, Cardinality(plNums) - 1)
                ELSE RInt(0))
      ELSE Null

\* pct_trades_after_loss
PctTradesAfterLoss(ts) ==
  LET plNums == {i \in 1..Len(ts) : FinitePl(ts[i])}
      lossCount == Cardinality({i \in 1..(Len(ts) - 1) : IsLoss(ts[i])})
      afterLossCount == lossCount
  IN  IF Cardinality(plNums) >= 2
      THEN Some(IF lossCount # 0 THEN Rat(afterLossCount, Len(ts) - 1) ELSE RInt(0))
      ELSE Null

\* lots.get(asset) ?? []
QueueOf(lots, asset) == IF asset \in DOMAIN lots THEN lots[asset] ELSE <<>>

RECURSIVE ConsumeLots_alwaysShift(_, _, _, _)
\* the while loop of a SELL dropping every lot it touches
ConsumeLots_alwaysShift(st, remaining, sell, sellTs) ==
  IF ~(remaining > 0 /\ Len(st.queue) > 0) THEN st
  ELSE LET lot == st.queue[1]
           used == Min(remaining, lot.qty)
           days == Rat(sellTs - lot.ts, SecPerDay)
       IN  ConsumeLots_alwaysShift(
             [queue |-> Tail(st.queue),
              holds |-> Append(st.holds, days),
              matches |-> Append(st.matches,
                                 [buy |-> lot.tradeId, sell |-> sell.tradeId,
                                  used |-> used, days |-> days])],
             remaining - used, sell, sellTs)

RECURSIVE ConsumeLots_newestFirst(_, _, _, _)
\* the while loop of a SELL taking the newest lot of the queue
ConsumeLots_newestFirst(st, remaining, sell, sellTs) ==
  IF ~(remaining > 0 /\ Len(st.queue) > 0) THEN st
  ELSE LET n == Len(st.queue)
           lot == st.queue[n]
           used == Min(remaining, lot.qty)
           days == Rat(sellTs - lot.ts, SecPerDay)
           left == lot.qty - used
       IN  ConsumeLots_newestFirst(
             [queue |-> IF left <= 0 THEN SubSeq(st.queue, 1, n - 1)
                        ELSE SubSeq(st.queue, 1, n - 1) \o <<[lot EXCEPT !.qty = left]>>,
              holds |-> Append(st.holds, days),
              matches |-> Append(st.matches,
                                 [buy |-> lot.tradeId, sell |-> sell.tradeId,
                                  used |-> used, days |-> days])],
             remaining - used, sell, sellTs)

RECURSIVE ConsumeLots(_, _, _, _)
\* the while loop of a SELL: st = [queue, holds, matches], remaining > 0
ConsumeLots(st, remaining, sell, sellTs) ==
  IF ~(remaining > 0 /\ Len(st.queue) > 0) THEN st
  ELSE LET lot == st.queue[1]
           used == Min(remaining, lot.qty)
           days == Rat(sellTs - lot.ts, SecPerDay)
           left == lot.qty - used
       IN  ConsumeLots(
             [queue |-> IF left <= 0 THEN Tail(st.queue)
                        ELSE <<[lot EXCEPT !.qty = left]>> \o Tail(st.queue),
              holds |-> Append(st.holds, days),
              matches |-> Append(st.matches,
                                 [buy |-> lot.tradeId, sell |-> sell.tradeId,
                                  used |-> used, days |-> days])],
             remaining - used, sell, sellTs)

\* one iteration of the lot-matching loop over trade t
LotStep(st, t) ==
  IF ~ValidTs(t) THEN st
  ELSE IF t.asset = "" \/ IsNull(t.qty) \/ Val(t.qty) <= 0 THEN st
  ELSE IF t.side = "BUY"
  THEN [st EXCEPT !.lots =
          (t.asset :> Append(QueueOf(st.lots, t.asset),
                             [ts |-> Val(t.ts), qty |-> Val(t.qty),
                              tradeId |-> t.tradeId]))
            @@ st.lots]
  ELSE IF t.side = "SELL"
  THEN LET r == ConsumeLots([queue |-> QueueOf(st.lots, t.asset),
                             holds |-> st.holds, matches |-> st.matches],
                            Val(t.qty), t, Val(t.ts))
       IN  [lots |-> IF t.asset \in DOMAIN st.lots
                     THEN [st.lots EXCEPT ![t.asset] = r.queue]
                     ELSE st.lots,
            holds |-> r.holds,
            matches |-> r.matches]
  ELSE st

\* the loop over the trades from the k-th on, run as two half loops one
\* after the other
LotLoop(st, ts, k) ==
  LET RECURSIVE In(_, _, _)
      In(s0, lo, hi) ==
        IF lo > hi THEN s0
        ELSE IF lo = hi THEN LotStep(s0, ts[lo])
        ELSE In(In(s0, lo, (lo + hi) \div 2), (lo + hi) \div 2 + 1, hi)
  IN  In(st, k, Len(ts))

\* the state of the FIFO matching after the whole sequence
MatchLots(ts) ==
  LotLoop([lots |-> [a \in {} |-> <<>>], holds |-> <<>>, matches |-> <<>>], ts, 1)

\* avg_holding_period_days
AvgHoldingPeriodDays(ts) ==
  LET hasSell == \E i \in 1..Len(ts) : ts[i].side = "SELL"
      holds == MatchLots(ts).holds
  IN  IF hasSell /\ Len(holds) > 0 THEN Some(mean(holds)) ELSE Null

computeUserMetrics(ts) ==
  LET perDay == TradesPerDay(ts)
      sizes == SizesFrom(ts, 1)
  IN  [trade_frequency |-> mean([j \in 1..Len(perDay) |-> RInt(perDay[j])]),
       avg_trade_size |-> mean(sizes),
       trade_size_variability |-> stddev(sizes),
       pct_trades_after_loss |-> PctTradesAfterLoss(ts),
       avg_holding_period_days |-> AvgHoldingPeriodDays(ts)]

\* clamp01 without its upper limit
clamp01_noUpper(x) == IF RLt(x, RInt(0)) THEN RInt(0) ELSE x

\* clamp01(x) = Math.max(0, Math.min(1, x))
clamp01(x) == IF RLt(x, RInt(0)) THEN RInt(0) ELSE IF RLt(RInt(1), x) THEN RInt(1) ELSE x

\* clamp01(Math.sqrt(q) / k), again as the rational under the root
clamp01Sqrt(s, k) == SqrtOf(clamp01(RDivInt(s.sq, k * k)))

normalizeMetrics(m) ==
  [trade_frequency |-> clamp01(RDivInt(m.trade_frequency, FreqScale)),
   avg_trade_size |-> clamp01(RDivInt(m.avg_trade_size, SizeScale)),
   holding_period |->
     IF IsNull(m.avg_holding_period_days) THEN Null
     ELSE Some(clamp01(RDivInt(Val(m.avg_holding_period_days), HoldScale))),
   after_loss |->
     IF IsNull(m.pct_trades_after_loss) THEN Null
     ELSE Some(clamp01(Val(m.pct_trades_after_loss))),
   size_variability |-> clamp01Sqrt(m.trade_size_variability, SizeScale)]

-----------------------------------------------------------------------------
(* Results of a call that can throw.                                       *)

\* the call returned v
Ok(v) == [raised |-> FALSE, value |-> v]
\* the call threw the error e
Raise(e) == [raised |-> TRUE, value |-> e]

-----------------------------------------------------------------------------
(* alignment.js: the style vectors.  A vector is a record over Keys; where *)
(* a key may be missing its component is nullable, <<>> being undefined.   *)

Keys == <<"trade_frequency", "holding_patience", "risk_reactivity", "consistency">>

\* the number base - Math.sqrt(sq), for rationals base and sq
Surd(base, sq) == [base |-> base, sq |-> sq]

\* the sample variance instead of the population variance
Variance_sample(counts, m) ==
  LET sq == [i \in 1..Len(counts) |->
               RMul(RSub(RInt(counts[i]), m), RSub(RInt(counts[i]), m))]
  IN  RDivInt(SumRat(sq), Len(counts) - 1)

\* counts.reduce((s, c) => s + (c - mean) * (c - mean), 0) / counts.length
Variance(counts, m) ==
  LET sq == [i \in 1..Len(counts) |->
               RMul(RSub(RInt(counts[i]), m), RSub(RInt(counts[i]), m))]
  IN  RDivInt(SumRat(sq), Len(counts))

\* Math.max(0, Math.min(1, 1 - Math.sqrt(varr) / 10))
Consistency(varr) ==
  LET q == RDivInt(varr, 100)
  IN  IF RLeq(RInt(1), q) THEN Surd(RInt(0), RInt(0)) ELSE Surd(RInt(1), q)

\* computeUserVector with counts.reduce left without its initial value
computeUserVector_bareReduce(ts, bs) ==
  IF \E i \in 1..Len(ts) : ~ValidTs(ts[i]) THEN Raise("RangeError")
  ELSE IF Len(TradesPerDay(ts)) = 0 THEN Raise("TypeError")
  ELSE LET counts == TradesPerDay(ts)
           avgTradesPerDay == Rat(SumSeq(counts), Len(counts))
           over == Rat(bs.overtrading.score, 100)
           rev == Rat(bs.revenge.score, 100)
       IN  Ok([trade_frequency |-> clamp01(RDivInt(avgTradesPerDay, 20)),
               holding_patience |->
                 clamp01(RSub(RSub(RInt(1), RMul(over, Rat(6, 10))),
                              RMul(rev, Rat(4, 10)))),
               risk_reactivity |-> clamp01(rev),
               consistency |->
                 IF Len(counts) >= 2
                 THEN Consistency(Variance(counts, avgTradesPerDay))
                 ELSE Surd(Rat(7, 10), RInt(0))])

\* computeUserVector(trades, biases); t.ts.toISOString() throws a RangeError
\* on an Invalid Date
computeUserVector(ts, bs) ==
  IF \E i \in 1..Len(ts) : ~ValidTs(ts[i]) THEN Raise("RangeError")
  ELSE LET counts == TradesPerDay(ts)
           avgTradesPerDay ==
             IF Len(counts) > 0 THEN Rat(SumSeq(counts), Len(counts))
             ELSE RInt(Len(ts))
           over == Rat(bs.overtrading.score, 100)
           rev == Rat(bs.revenge.score, 100)
       IN  Ok([trade_frequency |-> clamp01(RDivInt(avgTradesPerDay, 20)),
               holding_patience |->
                 clamp01(RSub(RSub(RInt(1), RMul(over, Rat(6, 10))),
                              RMul(rev, Rat(4, 10)))),
               risk_reactivity |-> clamp01(rev),
               consistency |->
                 IF Len(counts) >= 2
                 THEN Consistency(Variance(counts, avgTradesPerDay))
                 ELSE Surd(Rat(7, 10), RInt(0))])

\* to01(v): a score that is not a finite number is <<>>
to01(v) == IF IsNull(v) THEN RInt(0) ELSE clamp01(Rat(Val(v), 100))

\* computeUserVectorFromPortfolioMetrics(portfolioMetrics); <<>> is a missing
\* metrics object and the null it gives
computeUserVectorFromPortfolioMetrics(pm) ==
  IF pm = Null THEN Null
  ELSE [trade_frequency |-> Some(to01(pm.trade_frequency_score)),
        holding_patience |-> Some(to01(pm.holding_patience_score)),
        risk_reactivity |-> Some(to01(pm.risk_reactivity_score)),
        consistency |-> Some(to01(pm.consistency_score))]

\* Number(v[k] ?? 0)
NumberOr0(x) == IF IsNull(x) THEN RInt(0) ELSE Val(x)

\* the magnitude of the gap instead of the signed gap
GapDiff_abs(a, b) ==
  IF IsNull(a) \/ IsNull(b) THEN Null
  ELSE LET d == RSub(Val(a), Val(b)) IN Some([n |-> Abs(d.n), d |-> d.d])

\* userVec[k] - iv[k]; <<>> is the NaN of a missing key
GapDiff(a, b) ==
  IF IsNull(a) \/ IsNull(b) THEN Null ELSE Some(RSub(Val(a), Val(b)))

RECURSIVE SumSqFrom(_, _, _)
\* sumSq over the keys from position i on
SumSqFrom(u, iv, i) ==
  IF i > Len(Keys) THEN RInt(0)
  ELSE LET a == NumberOr0(u[Keys[i]])
           b == NumberOr0(iv[Keys[i]])
       IN  RAdd(RMul(RSub(a, b), RSub(a, b)), SumSqFrom(u, iv, i + 1))

RECURSIVE CeilSqrtIn(_, _, _)
\* the least j in lo..hi with j * j >= r, where hi * hi >= r
CeilSqrtIn(r, lo, hi) ==
  IF lo = hi THEN lo
  ELSE LET mid == (lo + hi) \div 2
       IN  IF RLeq(r, RInt(mid * mid)) THEN CeilSqrtIn(r, lo, mid)
           ELSE CeilSqrtIn(r, mid + 1, hi)

\* Math.floor in place of Math.round
RoundCloseness_floor(dist) ==
  LET m2 == IF RLeq(RInt(1), dist.sq) THEN RInt(1) ELSE dist.sq
  IN  (200 - CeilSqrtIn(RMul(m2, RInt(40000)), 0, 200)) \div 2

\* Math.round((1 - Math.min(1, dist)) * 100) for dist = Math.sqrt(q): the
\* largest k with k - 1/2 <= 100 - 100 * m, i.e. 200 * m <= 201 - 2 * k
RoundCloseness(dist) ==
  LET m2 == IF RLeq(RInt(1), dist.sq) THEN RInt(1) ELSE dist.sq
  IN  (201 - CeilSqrtIn(RMul(m2, RInt(40000)), 0, 200)) \div 2

\* alignmentScore(u, iv) throws a TypeError on a null vector
alignmentScoreRaises(u, iv) == u = Null \/ iv = Null

\* alignmentScore(userVec, investorVec) on two vector objects u and iv
alignmentScore(u, iv) ==
  LET sumSq == SumSqFrom(u, iv, 1)
      dist == SqrtOf(RDivInt(sumSq, Len(Keys)))
  IN  [score |-> RoundCloseness(dist),
       gaps |-> [i \in 1..Len(Keys) |->
                   [k |-> Keys[i],
                    user |-> u[Keys[i]],
                    target |-> iv[Keys[i]],
                    diff |-> GapDiff(u[Keys[i]], iv[Keys[i]])]]]

-----------------------------------------------------------------------------
(* investor_compare.js: the ranking of the investors.                      *)

\* the place of scored[i] with the lower score first
RankByScore_ascending(sc, i) ==
  Cardinality({j \in 1..Len(sc) :
                 \/ sc[j].alignment.score < sc[i].alignment.score
                 \/ sc[j].alignment.score = sc[i].alignment.score /\ j <= i})

\* the place of scored[i] after scored.sort((a, b) => b.alignment.score -
\* a.alignment.score): the higher score first, equal scores in input order
RankByScore(sc, i) ==
  Cardinality({j \in 1..Len(sc) :
                 \/ sc[j].alignment.score > sc[i].alignment.score
                 \/ sc[j].alignment.score = sc[i].alignment.score /\ j <= i})

\* scoreAgainstInvestors(userVector, investorsWithVectors)
scoreAgainstInvestors(u, invs) ==
  LET sc == [i \in 1..Len(invs) |->
               [investorId |-> invs[i].investorId,
                alignment |-> alignmentScore(u, invs[i].vector),
                investorVector |-> invs[i].vector]]
      rank == [i \in 1..Len(sc) |-> RankByScore(sc, i)]
  IN  [p \in 1..Len(sc) |-> sc[CHOOSE i \in 1..Len(sc) : rank[i] = p]]

-----------------------------------------------------------------------------
(* bias.js: chartData.                                                     *)

\* the per-day counts in day order; a trade with an Invalid Date is skipped
ChartTradesPerDay(ts) ==
  LET days == SortAsc(DayKeys(ts))
  IN  [j \in 1..Len(days) |-> [day |-> days[j], count |-> CountOnDay(ts, days[j])]]

\* Number(x) || 0
NumberOrZero(x) == IF IsNull(x) THEN 0 ELSE Val(x)

\* hasPL ? (Number(t.pl) || 0) : (Number(t.notional) || 0)
ChartValue(t, hasPL) == IF hasPL THEN NumberOrZero(t.pl) ELSE NumberOrZero(t.notional)

\* the place of s[i] in time order: the comparator new Date(a.ts) - new
\* Date(b.ts) puts the earlier trade first and the sort is stable, so equal
\* timestamps keep their order in s
RankByTs(s, i) ==
  Cardinality({j \in 1..Len(s) :
                 \/ Val(s[j].ts) < Val(s[i].ts)
                 \/ Val(s[j].ts) = Val(s[i].ts) /\ j <= i})

\* .sort((a, b) => new Date(a.ts) - new Date(b.ts)) on trades of valid ts
SortByTs(s) ==
  LET rank == [i \in 1..Len(s) |-> RankByTs(s, i)]
  IN  [p \in 1..Len(s) |-> s[CHOOSE i \in 1..Len(s) : rank[i] = p]]

\* the value of `cumulative' after the first k trades of s
RunningSum(s, hasPL, k) == SumSeq([i \in 1..k |-> ChartValue(s[i], hasPL)])

\* the running total taken in the caller's order, without the sort
CumulativeSeries_unsorted(ts) ==
  LET hasPL == hasValidPL(ts)
      kept == SelectSeq(ts, ValidTs)
  IN  [k \in 1..Len(kept) |->
         [ts |-> Val(kept[k].ts),
          value |-> ToFixed2(RInt(RunningSum(kept, hasPL, k)))]]

\* the running total of the valid trades in time order, each value being
\* Number(cumulative.toFixed(2))
CumulativeSeries(ts) ==
  LET hasPL == hasValidPL(ts)
      sorted == SortByTs(SelectSeq(ts, ValidTs))
  IN  [k \in 1..Len(sorted) |->
         [ts |-> Val(sorted[k].ts),
          value |-> ToFixed2(RInt(RunningSum(sorted, hasPL, k)))]]

\* trades.map(...) of the timeline: new Date(t.ts).toISOString() throws a
\* RangeError on an Invalid Date
TimelineRaises(ts) == \E i \in 1..Len(ts) : ~ValidTs(ts[i])

Timeline(ts) ==
  LET hasPL == hasValidPL(ts)
  IN  [i \in 1..Len(ts) |->
         [ts |-> Val(ts[i].ts), value |-> ChartValue(ts[i], hasPL),
          asset |-> ts[i].asset, side |-> ts[i].side]]

\* chartData with the sort applied to the caller's array
ArrayAfterChartData_sortInPlace(ts) ==
  SortByTs(SelectSeq(ts, ValidTs)) \o SelectSeq(ts, LAMBDA t : ~ValidTs(t))

\* the caller's array after chartData(trades): filter() hands sort() a fresh
\* array, and no trade object is assigned to
ArrayAfterChartData(ts) == ts

\* chartData(trades)
chartData(ts) ==
  IF TimelineRaises(ts) THEN Raise("RangeError")
  ELSE LET hasPL == hasValidPL(ts)
       IN  Ok([tradesPerDay |-> ChartTradesPerDay(ts),
               hasPL |-> hasPL,
               cumulativeLabel |->
                 IF hasPL THEN "Cumulative P/L" ELSE "Cumulative Trade Value",
               timelineLabel |-> IF hasPL THEN "Trade P/L" ELSE "Trade Value",
               cumulativeSeries |-> CumulativeSeries(ts),
               timeline |-> Timeline(ts)])

-----------------------------------------------------------------------------
(* PortfolioTimeline: the points drawn from charts.timeline and the bias   *)
(* labels of the worst losses.  An iso string is modelled by its second.   *)

\* tradeValue: Number(t.value) when finite, else 0
PointValue(t) == IF IsNull(t.value) THEN 0 ELSE Val(t.value)

RECURSIVE PointSum(_, _)
\* `cumulative' after the first k entries of s
PointSum(s, k) == IF k = 0 THEN 0 ELSE PointSum(s, k - 1) + PointValue(s[k])

\* points: the entries with a valid ts in time order
PointsOf(tl) ==
  LET sorted == SortByTs(SelectSeq(tl, ValidTs))
  IN  [k \in 1..Len(sorted) |->
         [iso |-> Val(sorted[k].ts),
          cumulative |-> ToFixed2(RInt(PointSum(sorted, k))),
          tradeValue |-> PointValue(sorted[k]),
          asset |-> sorted[k].asset,
          side |-> sorted[k].side]]

\* the place of point i among the loss points after lossPoints.sort((a, b)
\* => a.tradeValue - b.tradeValue): the larger loss first, equal losses in
\* time order
LossRank(pts, i) ==
  Cardinality({j \in 1..Len(pts) :
                 /\ pts[j].tradeValue < 0
                 /\ \/ pts[j].tradeValue < pts[i].tradeValue
                    \/ pts[j].tradeValue = pts[i].tradeValue /\ j <= i})

\* worst: the indices in points of the first five loss points of that order
WorstOf(pts) ==
  LET losses == {i \in 1..Len(pts) : pts[i].tradeValue < 0}
      n == Min(WorstLossCount, Cardinality(losses))
  IN  [r \in 1..n |-> CHOOSE i \in losses : LossRank(pts, i) = r]

\* the type given to the worst point pts[p]; findIndex takes the first
\* point with its iso, and the later tests override the earlier ones
BiasTypeOf(pts, p) ==
  LET i == CHOOSE x \in 1..Len(pts) :
             /\ pts[x].iso = pts[p].iso
             /\ \A y \in 1..(x - 1) : pts[y].iso # pts[p].iso
      prevIsLoss == i > 1 /\ pts[i - 1].tradeValue < 0
      gapOk == i > 1 /\ Abs(pts[p].iso - pts[i - 1].iso) <= PrevLossGapMin * SecPerMin
  IN  IF pts[p].side = "BUY" /\ pts[p].tradeValue < 0 THEN "FOMO buy"
      ELSE IF prevIsLoss /\ gapOk /\ pts[p].tradeValue < 0 THEN "Revenge trade"
      ELSE IF pts[p].side = "SELL" /\ pts[p].tradeValue < 0 THEN "Panic sell"
      ELSE "High-stress trade"

\* biasMeta: a Map from iso to type, each worst point in turn setting the
\* entry of its iso
BiasMetaOf(pts) ==
  LET worst == WorstOf(pts)
      last(iso) == CHOOSE r \in 1..Len(worst) :
                     /\ pts[worst[r]].iso = iso
                     /\ \A q \in (r + 1)..Len(worst) : pts[worst[q]].iso # iso
  IN  [iso \in {pts[worst[r]].iso : r \in 1..Len(worst)} |->
         BiasTypeOf(pts, worst[last(iso)])]

-----------------------------------------------------------------------------
(* The server (index.js): the session state shared by all requests.  A     *)
(* Map is a function on the keys that were set.  A stored trade carries    *)
(* the session it was uploaded in; metrics carry the session whose         *)
(* normalized file (portfolio) and whose trades (revenge) they were        *)
(* computed from.                                                          *)

\* the ids uuidv4() hands to the uploads
Sessions == {"s1", "s2"}

\* map.set(k, v)
MapSet(m, k, v) == [x \in DOMAIN m \cup {k} |-> IF x = k THEN v ELSE m[x]]
\* map.has(k)
MapHas(m, k) == k \in DOMAIN m

Row(s, n) == [owner |-> s, ts |-> Some(n)]

\* the normalized trades an upload may carry, in file order
UploadRows(s) == {<<>>, <<Row(s, 1)>>, <<Row(s, 2), Row(s, 1)>>}

\* fetchTrades(conn, sessionId): the persisted rows, ORDER BY TS ASC
fetchTrades(st, sessionId) ==
  IF MapHas(st, sessionId) THEN SortByTs(st[sessionId]) ELSE <<>>

\* getTradesForSession falling back to memory only when the store threw
getTradesForSession_onErrorOnly(fetched, mem, sessionId) ==
  IF IsNull(fetched) /\ MapHas(mem, sessionId) THEN mem[sessionId]
  ELSE IF IsNull(fetched) THEN <<>> ELSE Val(fetched)

\* getTradesForSession(sessionId); fetched is <<>> when getConnection or
\* fetchTrades threw, mem is sessionTrades
getTradesForSession(fetched, mem, sessionId) ==
  LET rows == IF IsNull(fetched) THEN <<>> ELSE Val(fetched)
  IN  IF Len(rows) = 0 /\ MapHas(mem, sessionId) THEN mem[sessionId] ELSE rows

\* runPythonMetrics(path) on the normalized file of session `path'; signal
\* says whether its revenge statistics are non-zero
runPythonMetrics(path, signal) ==
  [portfolio |-> path, revenge |-> path, signal |-> signal]

\* ensureRevenge(metrics, trades) with the trades of session `owner': the
\* fallback statistics of a list of fewer than seven trades have no streak
\* bucket 6, so their tilt indicator is 0
ensureRevenge(metrics, owner) ==
  IF metrics.signal THEN metrics
  ELSE [metrics EXCEPT !.revenge = owner, !.signal = FALSE]

\* needsRefresh of maybeRefresh
needsRefresh(metrics) == ~metrics.signal

\* a response body: the session it names and where its data came from
Reply(route, status, sessionId, portfolio, revenge, rows) ==
  [route |-> route, status |-> status, sessionId |-> sessionId,
   portfolio |-> portfolio, revenge |-> revenge, trades |-> rows]

-----------------------------------------------------------------------------
(* The trade sequences the engine is run on.  Every family enumerates all  *)
(* sequences of up to MaxTrades trades over the fields its computations    *)
(* read; the other fields are held at one value.  Caller order is kept as  *)
(* given: the in-memory copy of an upload is in file order.                *)

Hour == 60 * SecPerMin
Day5 == 5 * SecPerDay

PlSet ==
  {Null, Some(0), Some(100), Some(-105), Some(-106), Some(-150), Some(-151),
   Some(-200), Some(-201), Some(-250), Some(-300), Some(-301), Some(-1000)}

\* realized P/L varies; the trades are one hour apart on one day
MkPl(i, f) ==
  [tradeId |-> i, ts |-> Some(i * Hour), side |-> "BUY", asset |-> "AAA",
   qty |-> Some(1), notional |-> Some(1000), pl |-> f]

TimingSet ==
  [ts : {Null, Some(0), Some(600), Some(620), Some(630)},
   pl : {Null, Some(-100), Some(50)}]

\* timestamps (in any order, seconds apart, or invalid) and P/L vary
MkTiming(i, f) ==
  [tradeId |-> i, ts |-> f.ts, side |-> "BUY", asset |-> "AAA",
   qty |-> Some(1), notional |-> Some(1000), pl |-> f.pl]

SizeSet ==
  [notional : {Null, Some(-500), Some(2000), Some(12000)},
   pl : {Null, Some(-100), Some(50)}]

\* trade size and P/L vary; the trades are five minutes apart
MkSize(i, f) ==
  [tradeId |-> i, ts |-> Some(i * 300), side |-> "SELL", asset |-> "AAA",
   qty |-> Some(1), notional |-> f.notional, pl |-> f.pl]

HoldSet ==
  [ts : {Some(0), Some(Day5)}, side : {"BUY", "SELL"}, asset : {"AAA"},
   qty : {Some(4), Some(6), Some(10)}]
  \cup {[ts |-> Some(0), side |-> "BUY", asset |-> "BBB", qty |-> Some(10)],
        [ts |-> Some(Day5), side |-> "SELL", asset |-> "BBB", qty |-> Some(10)],
        [ts |-> Null, side |-> "SELL", asset |-> "AAA", qty |-> Some(4)],
        [ts |-> Some(0), side |-> "", asset |-> "AAA", qty |-> Some(4)],
        [ts |-> Some(0), side |-> "BUY", asset |-> "", qty |-> Null]}

\* side, asset, quantity and day vary
MkHold(i, f) ==
  [tradeId |-> i, ts |-> f.ts, side |-> f.side, asset |-> f.asset,
   qty |-> f.qty, notional |-> Some(1000), pl |-> Null]

\* `count' trades one minute apart on day `day', numbered from `first'
DayBlock(day, count, first) ==
  [k \in 1..count |->
     [tradeId |-> first + k - 1,
      ts |-> Some(day * SecPerDay + k * SecPerMin),
      side |-> "BUY", asset |-> "AAA", qty |-> Some(1),
      notional |-> Some(1000), pl |-> Null]]

\* per-day trade counts vary over two days (up to MaxPerDay a day)
TwoDays(c) == DayBlock(0, c[1], 1) \o DayBlock(1, c[2], c[1] + 1)

\* per-day trade counts vary over three days (up to MaxSmallDay a day)
ThreeDays(c) ==
  DayBlock(0, c[1], 1) \o DayBlock(1, c[2], c[1] + 1)
    \o DayBlock(2, c[3], c[1] + c[2] + 1)

\* the trade sequences of the checked input space
IsInput(seq) ==
  \/ \E k \in 0..MaxTrades : \E fs \in [1..k -> PlSet] : 
       seq = [i \in 1..k |-> MkPl(i, fs[i])]
  \/ \E k \in 0..MaxTrades : \E fs \in [1..k -> TimingSet] : 
       seq = [i \in 1..k |-> MkTiming(i, fs[i])]
  \/ \E k \in 0..MaxTrades : \E fs \in [1..k -> SizeSet] : 
       seq = [i \in 1..k |-> MkSize(i, fs[i])]
  \/ \E k \in 0..MaxTrades : \E fs \in [1..k -> HoldSet] : 
       seq = [i \in 1..k |-> MkHold(i, fs[i])]
  \/ \E c \in [1..2 -> 0..MaxPerDay] : seq = TwoDays(c)
  \/ \E c \in [1..3 -> 0..MaxSmallDay] : seq = ThreeDays(c)

-----------------------------------------------------------------------------
(* One analysis of a session's trades: GET /analyze/:sessionId runs the    *)
(* three engine calls in this order on the same sequence.                  *)

NoResult == <<>>

\* the comparison inputs and results before any comparison ran
CompareIdle ==
  /\ portfolioMetrics = NoResult
  /\ userVec = NoResult
  /\ investorVec = NoResult
  /\ alignment = NoResult

\* the server state at start-up
ServerIdle ==
  /\ sessionTrades = <<>>
  /\ sessionPortfolioMetrics = <<>>
  /\ lastUserTradesResult = NoResult
  /\ store = <<>>
  /\ uploadPc = [s \in Sessions |-> "idle"]
  /\ refresh = NoResult
  /\ response = NoResult
  /\ got = NoResult

\* the engine results before any call
EngineIdle ==
  /\ biases = NoResult
  /\ userMetrics = NoResult
  /\ normalizedMetrics = NoResult
  /\ chart = NoResult
  /\ userVector = NoResult

\* nothing ranked, projected, connected or coached yet
SideIdle ==
  /\ investors = NoResult
  /\ scored = NoResult
  /\ points = NoResult
  /\ biasMeta = NoResult
  /\ req = NoResult
  /\ pool = 0
  /\ coach = NoResult

Init ==
  /\ IsInput(trades)
  /\ pc = "start"
  /\ EngineIdle
  /\ CompareIdle
  /\ ServerIdle
  /\ SideIdle

ComputeBiases ==
  /\ pc = "start"
  /\ biases' = computeBiases(trades)
  /\ pc' = "biases"
  /\ UNCHANGED <<trades, userMetrics, normalizedMetrics, chart, userVector>>
  /\ UNCHANGED <<compareVars, serverVars, sideVars>>

ComputeUserMetrics ==
  /\ pc = "biases"
  /\ userMetrics' = computeUserMetrics(trades)
  /\ pc' = "metrics"
  /\ UNCHANGED <<trades, biases, normalizedMetrics, chart, userVector>>
  /\ UNCHANGED <<compareVars, serverVars, sideVars>>

NormalizeMetrics ==
  /\ pc = "metrics"
  /\ normalizedMetrics' = normalizeMetrics(userMetrics)
  /\ pc' = "normalized"
  /\ UNCHANGED <<trades, biases, userMetrics, chart, userVector>>
  /\ UNCHANGED <<compareVars, serverVars, sideVars>>

Next == ComputeBiases \/ ComputeUserMetrics \/ NormalizeMetrics

Spec == Init /\ [][Next]_vars

-----------------------------------------------------------------------------
(* normalizeMetrics on raw metrics of any size, as a caller may pass them. *)

RawMetrics ==
  [trade_frequency : {RInt(0), Rat(1, 2), RInt(20), RInt(21), RInt(1000)},
   avg_trade_size : {RInt(0), RInt(2500), RInt(5000), RInt(10000000)},
   trade_size_variability :
     {SqrtOf(RInt(0)), SqrtOf(RInt(6250000)), SqrtOf(RInt(25000000)),
      SqrtOf(RInt(100000000))},
   pct_trades_after_loss : {Null, Some(RInt(0)), Some(Rat(1, 2)), Some(RInt(1))},
   avg_holding_period_days :
     {Null, Some(RInt(0)), Some(RInt(45)), Some(RInt(90)), Some(RInt(365)),
      Some(RInt(-5))}]

InitNormalize ==
  /\ trades = <<>>
  /\ pc = "metrics"
  /\ biases = NoResult
  /\ userMetrics \in RawMetrics
  /\ normalizedMetrics = NoResult
  /\ chart = NoResult
  /\ userVector = NoResult
  /\ CompareIdle
  /\ ServerIdle
  /\ SideIdle

NextNormalize == NormalizeMetrics

SpecNormalize == InitNormalize /\ [][NextNormalize]_vars

-----------------------------------------------------------------------------
(* Every engine function on one sequence: the calls of the analysis        *)
(* handler, chartData, computeUserVector of the comparison handler, and    *)
(* then the analysis calls a second time on the same array.                *)

\* longest trade sequence of the engine family
MaxEngineTrades == 3

EngineSet ==
  {f \in [ts : {Null, Some(0), Some(300), Some(SecPerDay)},
          side : {"BUY", "SELL"},
          pl : {Null, Some(-100), Some(50)}] : f.side = "BUY" => f.pl = Null}

\* timestamp (in any order, or invalid), side and realized P/L vary
MkEngine(i, f) ==
  [tradeId |-> i, ts |-> f.ts, side |-> f.side, asset |-> "AAA",
   qty |-> Some(1), notional |-> Some(100 * i), pl |-> f.pl]

IsEngineInput(seq) ==
  \/ \E k \in 0..MaxEngineTrades : \E fs \in [1..k -> EngineSet] :
       seq = [i \in 1..k |-> MkEngine(i, fs[i])]
  \/ \E c \in [1..2 -> 0..MaxPerDay] : seq = TwoDays(c)
  \/ \E c \in [1..3 -> 0..MaxSmallDay] : seq = ThreeDays(c)

InitEngine ==
  /\ IsEngineInput(trades)
  /\ pc = "start"
  /\ EngineIdle
  /\ CompareIdle
  /\ ServerIdle
  /\ SideIdle

ChartData ==
  /\ pc = "normalized"
  /\ chart' = chartData(trades)
  /\ trades' = ArrayAfterChartData(trades)
  /\ pc' = "chart"
  /\ UNCHANGED <<biases, userMetrics, normalizedMetrics, userVector>>
  /\ UNCHANGED <<compareVars, serverVars, sideVars>>

ComputeUserVector ==
  /\ pc = "chart"
  /\ userVector' = computeUserVector(trades, biases)
  /\ pc' = "vector"
  /\ UNCHANGED <<trades, biases, userMetrics, normalizedMetrics, chart>>
  /\ UNCHANGED <<compareVars, serverVars, sideVars>>

\* computeBiases, computeUserMetrics and chartData called again
Recompute ==
  /\ pc = "vector"
  /\ biases' = computeBiases(trades)
  /\ userMetrics' = computeUserMetrics(trades)
  /\ chart' = chartData(trades)
  /\ trades' = ArrayAfterChartData(trades)
  /\ pc' = "again"
  /\ UNCHANGED <<normalizedMetrics, userVector>>
  /\ UNCHANGED <<compareVars, serverVars, sideVars>>

NextEngine ==
  \/ ComputeBiases
  \/ ComputeUserMetrics
  \/ NormalizeMetrics
  \/ ChartData
  \/ ComputeUserVector
  \/ Recompute

SpecEngine == InitEngine /\ [][NextEngine]_vars

-----------------------------------------------------------------------------
(* The comparison on vectors: computeUserVectorFromPortfolioMetrics on a   *)
(* metrics object, then alignmentScore against an investor vector.         *)

\* a *_score field; <<>> is a missing or non-finite one
ScoreSet == {Null, Some(-20), Some(25), Some(150)}

\* a component of an investor vector; <<>> is a missing key
TargetSet == {Null, Some(RInt(0)), Some(Rat(1, 2)), Some(RInt(1))}

InitAlign ==
  /\ trades = <<>>
  /\ pc = "start"
  /\ EngineIdle
  /\ ServerIdle
  /\ SideIdle
  /\ \/ portfolioMetrics = Null
     \/ portfolioMetrics \in
          [trade_frequency_score : ScoreSet, holding_patience_score : ScoreSet,
           risk_reactivity_score : ScoreSet, consistency_score : ScoreSet]
  /\ investorVec \in
       [trade_frequency : TargetSet, holding_patience : TargetSet,
        risk_reactivity : TargetSet, consistency : TargetSet]
  /\ userVec = NoResult
  /\ alignment = NoResult

UserVectorFromPortfolioMetrics ==
  /\ pc = "start"
  /\ userVec' = computeUserVectorFromPortfolioMetrics(portfolioMetrics)
  /\ pc' = "uservec"
  /\ UNCHANGED <<portfolioMetrics, investorVec, alignment>>
  /\ UNCHANGED <<trades, biases, userMetrics, normalizedMetrics, chart, userVector>>
  /\ UNCHANGED <<serverVars, sideVars>>

\* the handler passes this vector on unless it is null
AlignmentScore ==
  /\ pc = "uservec"
  /\ ~alignmentScoreRaises(userVec, investorVec)
  /\ alignment' = alignmentScore(userVec, investorVec)
  /\ pc' = "aligned"
  /\ UNCHANGED <<portfolioMetrics, userVec, investorVec>>
  /\ UNCHANGED <<trades, biases, userMetrics, normalizedMetrics, chart, userVector>>
  /\ UNCHANGED <<serverVars, sideVars>>

NextAlign == UserVectorFromPortfolioMetrics \/ AlignmentScore

SpecAlign == InitAlign /\ [][NextAlign]_vars

-----------------------------------------------------------------------------
(* The ranking: one user vector scored against a list of investors, each   *)
(* with a parsed vector, as fetchInvestorsWithVectors hands them over.     *)

\* longest investor list
MaxInvestors == 3

\* the vectors of the ranking; <<>> is a missing key
RankVectors ==
  [trade_frequency : {Some(RInt(0)), Some(Rat(1, 2)), Some(RInt(1))},
   holding_patience : {Null, Some(Rat(1, 2))},
   risk_reactivity : {Some(Rat(1, 2))},
   consistency : {Some(Rat(1, 2))}]

InitRank ==
  /\ trades = <<>>
  /\ pc = "start"
  /\ EngineIdle
  /\ ServerIdle
  /\ portfolioMetrics = NoResult
  /\ investorVec = NoResult
  /\ alignment = NoResult
  /\ userVec \in RankVectors
  /\ \E n \in 0..MaxInvestors : \E vs \in [1..n -> RankVectors] :
       investors = [i \in 1..n |-> [investorId |-> i, vector |-> vs[i]]]
  /\ scored = NoResult
  /\ points = NoResult
  /\ biasMeta = NoResult
  /\ req = NoResult
  /\ pool = 0
  /\ coach = NoResult

ScoreAgainstInvestors ==
  /\ pc = "start"
  /\ scored' = scoreAgainstInvestors(userVec, investors)
  /\ pc' = "ranked"
  /\ UNCHANGED <<trades, biases, userMetrics, normalizedMetrics, chart, userVector>>
  /\ UNCHANGED <<compareVars, serverVars>>
  /\ UNCHANGED <<investors, points, biasMeta, req, pool, coach>>

NextRank == ScoreAgainstInvestors

SpecRank == InitRank /\ [][NextRank]_vars

-----------------------------------------------------------------------------
(* The timeline view on the charts of one analysis response.               *)

\* longest timeline whose timestamps, values and sides all vary
MaxTimeline == 3
\* longest timeline of hourly trades whose values vary
MaxHourly == 6

\* the entries of charts.timeline: timestamps equal, 15 minutes or 15
\* minutes 1 second apart, in any order
TimelineSet ==
  [ts : {Some(0), Some(900), Some(1801)}, value : {Some(-100), Some(50)},
   asset : {"AAA"}, side : {"SELL", "BUY", ""}]

\* the values of a timeline of hourly SELLs
HourlyValues == {Some(-300), Some(-200), Some(-100), Some(50)}

InitTimeline ==
  /\ trades = <<>>
  /\ pc = "start"
  /\ biases = NoResult
  /\ userMetrics = NoResult
  /\ normalizedMetrics = NoResult
  /\ userVector = NoResult
  /\ \/ \E n \in 0..MaxTimeline : \E tl \in [1..n -> TimelineSet] :
          chart = Ok([timeline |-> tl])
     \/ \E n \in 0..MaxHourly : \E vs \in [1..n -> HourlyValues] :
          chart = Ok([timeline |->
                        [i \in 1..n |-> [ts |-> Some(i * Hour), value |-> vs[i],
                                         asset |-> "AAA", side |-> "SELL"]]])
  /\ CompareIdle
  /\ ServerIdle
  /\ SideIdle

\* the points memo
ProjectPoints ==
  /\ pc = "start"
  /\ points' = PointsOf(chart.value.timeline)
  /\ pc' = "points"
  /\ UNCHANGED <<trades, biases, userMetrics, normalizedMetrics, chart, userVector>>
  /\ UNCHANGED <<compareVars, serverVars>>
  /\ UNCHANGED <<investors, scored, biasMeta, req, pool, coach>>

\* the biasMeta memo
ClassifyBias ==
  /\ pc = "points"
  /\ biasMeta' = BiasMetaOf(points)
  /\ pc' = "bias"
  /\ UNCHANGED <<trades, biases, userMetrics, normalizedMetrics, chart, userVector>>
  /\ UNCHANGED <<compareVars, serverVars>>
  /\ UNCHANGED <<investors, scored, points, req, pool, coach>>

NextTimeline == ProjectPoints \/ ClassifyBias

SpecTimeline == InitTimeline /\ [][NextTimeline]_vars

-----------------------------------------------------------------------------
(* The server: uploads, the refresh of the last upload, analysis and       *)
(* comparison requests of any session, interleaved at their awaits.        *)

InitServer ==
  /\ trades = <<>>
  /\ pc = "start"
  /\ EngineIdle
  /\ CompareIdle
  /\ ServerIdle
  /\ SideIdle

\* POST /api/uploads/usertrades up to the await of runPythonMetrics
UploadParse(s) ==
  /\ uploadPc[s] = "idle"
  /\ \E rows \in UploadRows(s) :
       sessionTrades' =
         IF Len(rows) > 0 THEN MapSet(sessionTrades, s, rows) ELSE sessionTrades
  /\ uploadPc' = [uploadPc EXCEPT ![s] = "python"]
  /\ UNCHANGED <<sessionPortfolioMetrics, lastUserTradesResult, store, refresh,
                 response, got>>
  /\ UNCHANGED <<engineVars, compareVars, sideVars>>

\* the rest of the upload handler once runPythonMetrics returned
UploadMetrics(s) ==
  /\ uploadPc[s] = "python"
  /\ \E signal \in BOOLEAN :
       LET metrics ==
             ensureRevenge(ensureRevenge(runPythonMetrics(s, signal), s), s)
       IN  /\ sessionPortfolioMetrics' =
                MapSet(sessionPortfolioMetrics, s, metrics.portfolio)
           /\ lastUserTradesResult' =
                [sessionId |-> s, metrics |-> metrics, normalizedPath |-> s]
           /\ response' = Reply("upload", 200, s, Some(metrics.portfolio),
                                Some(metrics.revenge), <<>>)
  /\ uploadPc' = [uploadPc EXCEPT ![s] = "done"]
  /\ UNCHANGED <<sessionTrades, store, refresh, got>>
  /\ UNCHANGED <<engineVars, compareVars, sideVars>>

\* runPythonMetrics threw: 400 "Normalization failed"
UploadFails(s) ==
  /\ uploadPc[s] = "python"
  /\ response' = Reply("upload", 400, s, Null, Null, <<>>)
  /\ uploadPc' = [uploadPc EXCEPT ![s] = "failed"]
  /\ UNCHANGED <<sessionTrades, sessionPortfolioMetrics, lastUserTradesResult,
                 store, refresh, got>>
  /\ UNCHANGED <<engineVars, compareVars, sideVars>>

\* persistSessionToSnowflake, started by the upload without being awaited
Persist(s) ==
  /\ uploadPc[s] = "done"
  /\ MapHas(sessionTrades, s)
  /\ ~MapHas(store, s)
  /\ store' = MapSet(store, s, sessionTrades[s])
  /\ sessionPortfolioMetrics' =
       MapSet(sessionPortfolioMetrics, s, runPythonMetrics(s, FALSE).portfolio)
  /\ UNCHANGED <<sessionTrades, lastUserTradesResult, uploadPc, refresh,
                 response, got>>
  /\ UNCHANGED <<engineVars, compareVars, sideVars>>

\* GET /api/uploads/usertrades up to the await of runPythonMetrics
RefreshBegin ==
  /\ lastUserTradesResult # NoResult
  /\ refresh = NoResult
  /\ IF needsRefresh(lastUserTradesResult.metrics)
     THEN /\ refresh' = [normalizedPath |-> lastUserTradesResult.normalizedPath]
          /\ UNCHANGED response
     ELSE /\ response' =
               Reply("refresh", 200, lastUserTradesResult.sessionId,
                     Some(lastUserTradesResult.metrics.portfolio),
                     Some(lastUserTradesResult.metrics.revenge), <<>>)
          /\ UNCHANGED refresh
  /\ UNCHANGED <<sessionTrades, sessionPortfolioMetrics, lastUserTradesResult,
                 store, uploadPc, got>>
  /\ UNCHANGED <<engineVars, compareVars, sideVars>>

\* maybeRefresh after its await: the refreshed metrics, or the fallback of
\* the catch block, are written to whatever lastUserTradesResult is now
RefreshEnd ==
  /\ refresh # NoResult
  /\ \E outcome \in {"signal", "zero", "error"} :
       LET owner == lastUserTradesResult.sessionId
           metrics ==
             IF outcome = "error"
             THEN IF MapHas(sessionTrades, owner)
                  THEN [lastUserTradesResult.metrics EXCEPT
                          !.revenge = owner, !.signal = FALSE]
                  ELSE lastUserTradesResult.metrics
             ELSE ensureRevenge(
                    runPythonMetrics(refresh.normalizedPath, outcome = "signal"),
                    owner)
       IN  /\ lastUserTradesResult' =
                [lastUserTradesResult EXCEPT !.metrics = metrics]
           /\ response' = Reply("refresh", 200, owner, Some(metrics.portfolio),
                                Some(metrics.revenge), <<>>)
  /\ refresh' = NoResult
  /\ UNCHANGED <<sessionTrades, sessionPortfolioMetrics, store, uploadPc, got>>
  /\ UNCHANGED <<engineVars, compareVars, sideVars>>

\* what one call of getTradesForSession saw and returned
Got(s, fetched) ==
  [sessionId |-> s, fetched |-> fetched,
   inMemory |-> MapHas(sessionTrades, s),
   memory |-> IF MapHas(sessionTrades, s) THEN sessionTrades[s] ELSE <<>>,
   trades |-> getTradesForSession(fetched, sessionTrades, s)]

\* GET /analyze/:sessionId
Analyze(s) ==
  /\ \E reachable \in BOOLEAN :
       LET fetched == IF reachable THEN Some(fetchTrades(store, s)) ELSE Null
           rows == getTradesForSession(fetched, sessionTrades, s)
       IN  /\ got' = Got(s, fetched)
           /\ response' =
                IF Len(rows) = 0 THEN Reply("analyze", 404, s, Null, Null, <<>>)
                ELSE Reply("analyze", 200, s, Null, Null, rows)
  /\ UNCHANGED <<sessionTrades, sessionPortfolioMetrics, lastUserTradesResult,
                 store, uploadPc, refresh>>
  /\ UNCHANGED <<engineVars, compareVars, sideVars>>

\* GET /compare/:sessionId/:investorId once its own connection is open;
\* python says whether computePortfolioMetricsForSession got metrics
Compare(s) ==
  /\ \E reachable \in BOOLEAN, python \in BOOLEAN :
       LET fetched == IF reachable THEN Some(fetchTrades(store, s)) ELSE Null
           rows == getTradesForSession(fetched, sessionTrades, s)
       IN  /\ got' = Got(s, fetched)
           /\ IF Len(rows) = 0
              THEN /\ response' = Reply("compare", 404, s, Null, Null, <<>>)
                   /\ UNCHANGED sessionPortfolioMetrics
              ELSE IF MapHas(sessionPortfolioMetrics, s)
              THEN /\ response' = Reply("compare", 200, s,
                                        Some(sessionPortfolioMetrics[s]), Null, rows)
                   /\ UNCHANGED sessionPortfolioMetrics
              ELSE IF python
              THEN /\ sessionPortfolioMetrics' =
                        MapSet(sessionPortfolioMetrics, s, rows[1].owner)
                   /\ response' = Reply("compare", 200, s, Some(rows[1].owner),
                                        Null, rows)
              ELSE /\ response' = Reply("compare", 200, s, Null, Null, rows)
                   /\ UNCHANGED sessionPortfolioMetrics
  /\ UNCHANGED <<sessionTrades, lastUserTradesResult, store, uploadPc, refresh>>
  /\ UNCHANGED <<engineVars, compareVars, sideVars>>

NextServer ==
  \/ \E s \in Sessions : UploadParse(s)
  \/ \E s \in Sessions : UploadMetrics(s)
  \/ \E s \in Sessions : UploadFails(s)
  \/ \E s \in Sessions : Persist(s)
  \/ RefreshBegin
  \/ RefreshEnd
  \/ \E s \in Sessions : Analyze(s)
  \/ \E s \in Sessions : Compare(s)

SpecServer == InitServer /\ [][NextServer]_vars

-----------------------------------------------------------------------------
(* Store connections of one request: GET /compare, GET /coach and POST     *)
(* /upload with its persistSessionToSnowflake, stepped at their awaits.    *)

\* connections left open on the server beyond which no request is started
MaxOpen == 3

Routes == {"compare", "coach", "upload"}

\* awaited store calls on the request's own connection: getInvestorVector
\* for compare; two exec and getInvestorVector, then up to two holdings
\* queries, for coach; the three exec of persistSessionToSnowflake
QueriesOf(route, holdings) ==
  CASE route = "compare" -> 1
    [] route = "coach" -> 3 + holdings
    [] route = "upload" -> 3

InitConn ==
  /\ trades = <<>>
  /\ pc = "start"
  /\ EngineIdle
  /\ CompareIdle
  /\ ServerIdle
  /\ SideIdle

\* a request arrives; an upload without trades leaves
\* persistSessionToSnowflake before any connection is opened
BeginRequest ==
  /\ IF req = NoResult THEN TRUE ELSE req.status # 0
  /\ pool < MaxOpen
  /\ \E route \in Routes, holdings \in 0..2, normalized \in BOOLEAN :
       req' = [route |-> route,
               at |-> IF route = "upload" /\ ~normalized THEN "respond" ELSE "open",
               own |-> FALSE, inner |-> FALSE, rows |-> normalized,
               left |-> QueriesOf(route, IF route = "coach" THEN holdings ELSE 0),
               status |-> 0]
  /\ UNCHANGED <<investors, scored, points, biasMeta, pool, coach>>
  /\ UNCHANGED <<engineVars, compareVars, serverVars>>

\* const conn = await getConnection() of the handler or of
\* persistSessionToSnowflake; a rejection reaches the handler's catch
GetConnection ==
  /\ req # NoResult /\ req.status = 0 /\ req.at = "open"
  /\ \E ok \in BOOLEAN :
       IF ok
       THEN /\ req' = [req EXCEPT !.own = TRUE,
                         !.at = IF req.route = "upload" THEN "query"
                                ELSE "trades_open"]
            /\ pool' = pool + 1
       ELSE /\ req' = [req EXCEPT !.status = 500, !.at = "done"]
            /\ UNCHANGED pool
  /\ UNCHANGED <<investors, scored, points, biasMeta, coach>>
  /\ UNCHANGED <<engineVars, compareVars, serverVars>>

\* getTradesForSession: conn = await getConnection(), a rejection is caught
\* and the in-memory trades are the fallback
TradesOpen ==
  /\ req # NoResult /\ req.status = 0 /\ req.at = "trades_open"
  /\ \E ok \in BOOLEAN, remembered \in BOOLEAN :
       IF ok
       THEN /\ req' = [req EXCEPT !.inner = TRUE, !.at = "trades_fetch"]
            /\ pool' = pool + 1
       ELSE /\ req' = [req EXCEPT !.rows = remembered, !.at = "trades_done"]
            /\ UNCHANGED pool
  /\ UNCHANGED <<investors, scored, points, biasMeta, coach>>
  /\ UNCHANGED <<engineVars, compareVars, serverVars>>

\* getTradesForSession: await fetchTrades, resolved or rejected, then the
\* finally block destroys the connection
TradesFetch ==
  /\ req # NoResult /\ req.status = 0 /\ req.at = "trades_fetch"
  /\ \E found \in BOOLEAN :
       req' = [req EXCEPT !.inner = FALSE, !.rows = found, !.at = "trades_done"]
  /\ pool' = pool - 1
  /\ UNCHANGED <<investors, scored, points, biasMeta, coach>>
  /\ UNCHANGED <<engineVars, compareVars, serverVars>>

\* the handler after getTradesForSession: 404 without trades
TradesDone ==
  /\ req # NoResult /\ req.status = 0 /\ req.at = "trades_done"
  /\ req' = IF req.rows THEN [req EXCEPT !.at = "query"]
            ELSE [req EXCEPT !.status = 404, !.at = "done"]
  /\ UNCHANGED <<investors, scored, points, biasMeta, pool, coach>>
  /\ UNCHANGED <<engineVars, compareVars, serverVars>>

\* one awaited query on the request's own connection; a rejection reaches
\* the handler's catch, which answers 500
Query ==
  /\ req # NoResult /\ req.status = 0 /\ req.at = "query"
  /\ \E ok \in BOOLEAN :
       req' = IF ~ok THEN [req EXCEPT !.status = 500, !.at = "done"]
              ELSE IF req.left > 1 THEN [req EXCEPT !.left = req.left - 1]
              ELSE [req EXCEPT !.left = 0,
                      !.at = IF req.route = "coach" THEN "coach" ELSE "respond"]
  /\ UNCHANGED <<investors, scored, points, biasMeta, pool, coach>>
  /\ UNCHANGED <<engineVars, compareVars, serverVars>>

\* await coachLikeInvestor(payload), which returns an object in every case
Coaching ==
  /\ req # NoResult /\ req.status = 0 /\ req.at = "coach"
  /\ req' = [req EXCEPT !.at = "respond"]
  /\ UNCHANGED <<investors, scored, points, biasMeta, pool, coach>>
  /\ UNCHANGED <<engineVars, compareVars, serverVars>>

\* conn.destroy() followed by res.json(...)
Respond ==
  /\ req # NoResult /\ req.status = 0 /\ req.at = "respond"
  /\ req' = [req EXCEPT !.own = FALSE, !.status = 200, !.at = "done"]
  /\ pool' = IF req.own THEN pool - 1 ELSE pool
  /\ UNCHANGED <<investors, scored, points, biasMeta, coach>>
  /\ UNCHANGED <<engineVars, compareVars, serverVars>>

NextConn ==
  \/ BeginRequest
  \/ GetConnection
  \/ TradesOpen
  \/ TradesFetch
  \/ TradesDone
  \/ Query
  \/ Coaching
  \/ Respond

SpecConn == InitConn /\ [][NextConn]_vars

-----------------------------------------------------------------------------
(* gemini_coach.js: one call of coachLikeInvestor.  A reply text is a      *)
(* sequence of chunks, each a run of prose or one JSON object; an error    *)
(* message is a sequence of words; a JSON value is [type, v].              *)

\* attempts on one model
MaxAttempts == 3

modelFallbacks ==
  <<"gemini-2.0-flash", "gemini-2.0-flash-lite", "gemini-1.5-flash",
    "gemini-1.5-pro", "gemini-3-flash-preview">>

Str(v) == [type |-> "string", v |-> v]
Json(investor, summary) ==
  [json |-> TRUE, investor |-> investor, summary |-> summary]

\* a JSON value in a condition: the empty string and undefined are falsy
Truthy(x) == x.type # "undefined" /\ x.v # ""

\* JSON.parse of the whole text, else of the span from the first "{" to the
\* last "}", else null
parseJsonFromText(text) ==
  LET objs == {i \in 1..Len(text) : text[i].json}
      first == CHOOSE i \in objs : \A j \in objs : i <= j
      last == CHOOSE i \in objs : \A j \in objs : j <= i
  IN  IF Len(text) = 1 /\ text[1].json THEN Some(text[1])
      ELSE IF objs = {} THEN Null
      ELSE IF first = last THEN Some(text[first])
      ELSE Null

toLowerCase(w) ==
  CASE w = "Overloaded" -> "overloaded"
    [] w = "The" -> "the"
    [] w = "Service" -> "service"
    [] w = "Unavailable" -> "unavailable"
    [] w = "API" -> "api"
    [] OTHER -> w

isOverloadError(msg) ==
  \E i \in 1..Len(msg) : msg[i] = "503" \/ toLowerCase(msg[i]) = "overloaded"

\* the object returned in mock mode
MockResult(c) ==
  [kind |-> "mock",
   investor |-> IF IsNull(c.investor) THEN "chosen investor" ELSE Val(c.investor),
   alignmentScore |-> c.score,
   summary |-> "Mock coaching output (GEMINI_API_KEY not set).",
   error |-> Null]

\* the object returned after the loops
FallbackResult(c, lastErr) ==
  [kind |-> "fallback",
   investor |-> IF IsNull(c.investor) THEN "unknown" ELSE Val(c.investor),
   alignmentScore |-> c.score,
   summary |-> "Gemini failed after retries/fallbacks.",
   error |-> lastErr]

\* the model loop moves on, or ends in the fallback object
NextModel(c, reply, lastErr) ==
  IF c.m < Len(modelFallbacks)
  THEN [c EXCEPT !.m = c.m + 1, !.attempt = 1, !.calls = c.calls + 1,
          !.reply = Some(reply), !.lastErr = lastErr]
  ELSE [c EXCEPT !.calls = c.calls + 1, !.reply = Some(reply),
          !.lastErr = lastErr, !.result = Some(FallbackResult(c, lastErr)),
          !.done = TRUE]

NextAttempt_fourAttempts(c, reply, lastErr) ==
  IF c.attempt <= MaxAttempts
  THEN [c EXCEPT !.attempt = c.attempt + 1, !.calls = c.calls + 1,
          !.reply = Some(reply), !.lastErr = lastErr]
  ELSE NextModel(c, reply, lastErr)

\* the attempt loop moves on
NextAttempt(c, reply, lastErr) ==
  IF c.attempt < MaxAttempts
  THEN [c EXCEPT !.attempt = c.attempt + 1, !.calls = c.calls + 1,
          !.reply = Some(reply), !.lastErr = lastErr]
  ELSE NextModel(c, reply, lastErr)

\* one pass of the loop body on what generateContent gave
AfterAttempt(c, reply) ==
  IF reply.threw
  THEN IF isOverloadError(reply.message)
       THEN NextAttempt(c, reply, Some(reply.message))
       ELSE NextModel(c, reply, Some(reply.message))
  ELSE LET parsed == parseJsonFromText(reply.text)
       IN  IF ~IsNull(parsed) /\ Truthy(Val(parsed).investor)
              /\ Val(parsed).summary.type = "string"
           THEN [c EXCEPT !.calls = c.calls + 1, !.reply = Some(reply),
                   !.result = Some([kind |-> "reply",
                                    investor |-> Val(parsed).investor.v,
                                    alignmentScore |-> Null,
                                    summary |-> Val(parsed).summary.v,
                                    error |-> Null]),
                   !.done = TRUE]
           ELSE NextAttempt(c, reply,
                  Some(<<"Unparseable", "JSON", "from", "model",
                         modelFallbacks[c.m]>>))

Texts ==
  LET Undefined == [type |-> "undefined", v |-> ""]
      Prose(v) == [json |-> FALSE, prose |-> v]
      Objects ==
        {Json(i, s) : i \in {Str("Warren Buffett"), Str(""), Undefined},
                      s \in {Str("Trade less."), Str(""), Undefined,
                             [type |-> "number", v |-> "7"]}}
  IN  {<<o>> : o \in Objects}
        \cup {<<Prose("Here is the plan:"), o>> : o \in Objects}
        \cup {<<>>, <<Prose("Sorry, I cannot help.")>>,
              <<Json(Str("Warren Buffett"), Str("Trade less.")), Prose("or"),
                Json(Str("Warren Buffett"), Str("Hold longer."))>>}

Messages ==
  {<<"503", "Service", "Unavailable">>, <<"The", "model", "is", "Overloaded">>,
   <<"model", "is", "overloaded">>, <<"404", "model", "not", "found">>,
   <<"API", "key", "not", "valid">>, <<"text.match", "is", "not", "a", "function">>}

Replies ==
  {[threw |-> FALSE, text |-> t, message |-> <<>>] : t \in Texts}
    \cup {[threw |-> TRUE, text |-> <<>>, message |-> m] : m \in Messages}

PayloadScores == {Null, Some(0), Some(73)}

InitCoach ==
  /\ trades = <<>>
  /\ pc = "start"
  /\ EngineIdle
  /\ CompareIdle
  /\ ServerIdle
  /\ investors = NoResult /\ scored = NoResult /\ points = NoResult
  /\ biasMeta = NoResult /\ req = NoResult /\ pool = 0
  /\ \E mock \in BOOLEAN, score \in PayloadScores,
        investor \in {Null, Some("Warren Buffett")} :
       coach = [mock |-> mock, score |-> score, investor |-> investor,
                m |-> 1, attempt |-> 1, calls |-> 0, reply |-> Null,
                lastErr |-> Null, result |-> Null, done |-> FALSE]

\* without an API key the mock object is returned at once
CoachMock ==
  /\ coach.mock /\ ~coach.done
  /\ coach' = [coach EXCEPT !.result = Some(MockResult(coach)), !.done = TRUE]
  /\ UNCHANGED <<investors, scored, points, biasMeta, req, pool>>
  /\ UNCHANGED <<engineVars, compareVars, serverVars>>

\* await model.generateContent(prompt) resolves or rejects, and the loops
\* run to the next await or to the return
GenerateContent ==
  /\ ~coach.mock /\ ~coach.done
  /\ \E reply \in Replies : coach' = AfterAttempt(coach, reply)
  /\ UNCHANGED <<investors, scored, points, biasMeta, req, pool>>
  /\ UNCHANGED <<engineVars, compareVars, serverVars>>

NextCoach == CoachMock \/ GenerateContent

\* every generateContent call settles
SpecCoach == InitCoach /\ [][NextCoach]_vars /\ WF_vars(NextCoach)

-----------------------------------------------------------------------------
(* Properties.                                                             *)

BiasesDone == pc \in {"biases", "metrics", "normalized", "chart", "vector", "again"}
MetricsDone == pc \in {"metrics", "normalized", "chart", "vector", "again"}

\* C1: every trade sequence (empty, single-trade, single-day and no-P/L ones
\* included) gets overtrading, revenge and loss-aversion scores that are
\* integers in 0..100.
C1_ScoresInRange ==
  BiasesDone =>
    /\ biases.overtrading.score \in 0..100
    /\ biases.revenge.score \in 0..100
    /\ biases.lossAversion.score \in 0..100

\* C1 witness: a single day of more trades than the full-score volume, where
\* only the clamp keeps the score at 100.
C1_Witness ==
  /\ BiasesDone
  /\ Len(TradesPerDay(trades)) = 1
  /\ TradesPerDay(trades)[1] > SingleDayFull
  /\ biases.overtrading.score = 100

\* C2: revenge.insufficientData and lossAversion.insufficientData are both
\* true exactly when no trade carries a finite pl, and then both scores are 0
\* and both evidence lists are empty, whatever the timestamps.
C2_InsufficientData ==
  BiasesDone =>
    LET noPl == \A i \in 1..Len(trades) : IsNull(trades[i].pl)
    IN  /\ biases.revenge.insufficientData = noPl
        /\ biases.lossAversion.insufficientData = noPl
        /\ noPl => /\ biases.revenge.score = 0
                   /\ biases.lossAversion.score = 0
                   /\ biases.revenge.evidence = <<>>
                   /\ biases.lossAversion.evidence = <<>>

\* C2 witness: two trades without pl ten minutes apart, flagged insufficient.
C2_Witness ==
  /\ BiasesDone
  /\ Len(trades) >= 2
  /\ trades[1].ts = Some(0) /\ trades[2].ts = Some(600)
  /\ biases.revenge.insufficientData
  /\ biases.lossAversion.insufficientData

\* the median of a non-empty list of per-day counts, as the claim states it
C3_Median(counts) ==
  LET n == Len(counts)
      sorted == SortAsc(counts)
  IN  IF n % 2 = 1 THEN RInt(sorted[(n + 1) \div 2])
      ELSE Rat(sorted[n \div 2] + sorted[n \div 2 + 1], 2)

\* the overtrading score as a function of the per-day counts, as the claim
\* states it
C3_Score(counts) ==
  IF Len(counts) = 0 THEN 0
  ELSE IF Len(counts) = 1
  THEN Max(0, Min(100, Round(Rat(counts[1] * 100, 15))))
  ELSE LET mx == MaxSeq(counts)
           md == C3_Median(counts)
       IN  Max(0, Min(100, Round(RMul(RSub(RDiv(RInt(mx), md), RInt(1)), RInt(50)))))

\* C3: the overtrading score is a function of the per-day counts only: 0 for
\* no day, clamp(round(count/15*100)) for one day (5 -> 33, 15 -> 100,
\* 30 -> 100), clamp(round((max/median - 1)*50)) for two or more days
\* ([2,10] -> 33).
C3_OvertradingScore ==
  BiasesDone =>
    LET counts == TradesPerDay(trades)
    IN  /\ biases.overtrading.score = C3_Score(counts)
        /\ counts = <<5>> => biases.overtrading.score = 33
        /\ counts = <<15>> => biases.overtrading.score = 100
        /\ counts = <<30>> => biases.overtrading.score = 100
        /\ counts = <<2, 10>> => biases.overtrading.score = 33

\* C3 witness: two days of 2 and 10 trades scored 33.
C3_Witness ==
  /\ BiasesDone
  /\ TradesPerDay(trades) = <<2, 10>>
  /\ biases.overtrading.score = 33

\* the loss at position i has an evidence record
C4_Counted(i) ==
  \E k \in 1..Len(biases.revenge.evidence) :
    biases.revenge.evidence[k].lossTradeId = trades[i].tradeId

\* the trade after position i exists and is at most 10 minutes later
C4_FollowedWithinTenMinutes(i) ==
  /\ i + 1 <= Len(trades)
  /\ ValidTs(trades[i]) /\ ValidTs(trades[i + 1])
  /\ Val(trades[i + 1].ts) - Val(trades[i].ts) <= RevengeWindowMin * SecPerMin

\* C4: with finite pl present, a loss at position i is a revenge trigger
\* exactly when a trade exists at position i+1 whose timestamp is at most 10
\* minutes after the loss's, and the score is
\* clamp(round(triggers / max(1, lossCount) * 100)).
C4_TriggerWithinTenMinutes ==
  (BiasesDone /\ ~biases.revenge.insufficientData) =>
    LET losses == {i \in 1..Len(trades) : IsLoss(trades[i])}
        triggers == Cardinality({i \in losses : C4_FollowedWithinTenMinutes(i)})
    IN  /\ \A i \in losses : C4_Counted(i) <=> C4_FollowedWithinTenMinutes(i)
        /\ biases.revenge.score =
             Max(0, Min(100, Round(Rat(triggers * 100, Max(1, Cardinality(losses))))))

\* the positions of the winning (sign = 1) or losing (sign = -1) trades
C5_Idx(sign) ==
  {i \in 1..Len(trades) : ~IsNull(trades[i].pl) /\ sign * Val(trades[i].pl) > 0}

RECURSIVE C5_SumAbs(_)
C5_SumAbs(I) ==
  IF I = {} THEN 0
  ELSE LET i == CHOOSE j \in I : TRUE
       IN  Abs(Val(trades[i].pl)) + C5_SumAbs(I \ {i})

\* avgLoss/avgWin lies in the band (lo, hi]; a bound of -1 is open
C5_RatioIn(lo, hi) ==
  LET W == C5_Idx(1)
      L == C5_Idx(-1)
      ratio == Rat(C5_SumAbs(L) * Cardinality(W), Cardinality(L) * C5_SumAbs(W))
  IN  /\ lo = -1 \/ RLt(Rat(lo, 100), ratio)
      /\ hi = -1 \/ RLeq(ratio, Rat(hi, 100))

C6_Orderings ==
  {[i \in 1..Len(trades) |-> trades[p[i]]] : p \in Permutations(1..Len(trades))}

\* C6: for any two orderings of the same trades computeBiases returns the
\* same revenge result and computeUserMetrics the same
\* avg_holding_period_days (stated for trades with valid, pairwise distinct
\* timestamps, where ascending-timestamp order is unique).
C6_OrderIndependent ==
  (/\ MetricsDone
   /\ Len(trades) <= MaxTrades
   /\ \A i \in 1..Len(trades) : ValidTs(trades[i])
   /\ \A i, j \in 1..Len(trades) : i # j => trades[i].ts # trades[j].ts) =>
    \A other \in C6_Orderings :
      /\ computeBiases(other).revenge = biases.revenge
      /\ computeUserMetrics(other).avg_holding_period_days
           = userMetrics.avg_holding_period_days

\* C7: every field computeUserMetrics returns lies in its declared range:
\* trade_frequency, avg_trade_size and trade_size_variability are >= 0,
\* pct_trades_after_loss is null or in [0,1], avg_holding_period_days is null
\* or >= 0.
C7_MetricsInRange ==
  MetricsDone =>
    /\ RLeq(RInt(0), userMetrics.trade_frequency)
    /\ RLeq(RInt(0), userMetrics.avg_trade_size)
    /\ RLeq(RInt(0), userMetrics.trade_size_variability.sq)
    /\ \/ IsNull(userMetrics.pct_trades_after_loss)
       \/ /\ RLeq(RInt(0), Val(userMetrics.pct_trades_after_loss))
          /\ RLeq(Val(userMetrics.pct_trades_after_loss), RInt(1))
    /\ \/ IsNull(userMetrics.avg_holding_period_days)
       \/ RLeq(RInt(0), Val(userMetrics.avg_holding_period_days))

\* C8: pct_trades_after_loss is null when fewer than 2 trades have a finite
\* pl; otherwise it is the number of trades with pl < 0 among all but the
\* last, divided by N-1, N the length of the whole sequence.
C8_PctTradesAfterLoss ==
  MetricsDone =>
    LET N == Len(trades)
        withPl == Cardinality({i \in 1..N : ~IsNull(trades[i].pl)})
        lossesBeforeLast ==
          Cardinality({i \in 1..(N - 1) :
                         ~IsNull(trades[i].pl) /\ Val(trades[i].pl) < 0})
    IN  IF withPl < 2 THEN userMetrics.pct_trades_after_loss = Null
        ELSE userMetrics.pct_trades_after_loss = Some(Rat(lossesBeforeLast, N - 1))

\* C8 witness: three trades, the middle one without pl, the first a loss:
\* 1 loss over N-1 = 2.
C8_Witness ==
  /\ MetricsDone
  /\ Len(trades) = 3
  /\ trades[1].pl = Some(-100) /\ IsNull(trades[2].pl) /\ trades[3].pl = Some(50)
  /\ userMetrics.pct_trades_after_loss = Some(Rat(1, 2))

\* the samples of the lot matching, one per (SELL, lot) pairing
C9_Matches == MatchLots(trades).matches

RECURSIVE C9_SumSeconds(_, _)
\* the seconds from each matched lot's BUY to its SELL, summed
C9_SumSeconds(ms, k) ==
  IF k > Len(ms) THEN 0
  ELSE Val(trades[ms[k].sell].ts) - Val(trades[ms[k].buy].ts)
         + C9_SumSeconds(ms, k + 1)

\* C9: each pairing of a SELL with a BUY lot it consumes a positive quantity
\* from contributes exactly one holding-period sample of (sell timestamp -
\* buy timestamp) in days, whatever the quantity: BUY 10 consumed by SELL 10
\* five days later gives one sample of 5 days, BUY 10 consumed by SELLs of 4
\* and 6 gives two samples from the same BUY; avg_holding_period_days is the
\* mean of the samples, and null without a SELL or without a sample.
C9_HoldingSamples ==
  MetricsDone =>
    LET ms == C9_Matches
        hasSell == \E i \in 1..Len(trades) : trades[i].side = "SELL"
        buy10 == Len(trades) >= 2
                   /\ trades[1].side = "BUY" /\ trades[1].qty = Some(10)
                   /\ trades[1].ts = Some(0) /\ trades[1].asset = "AAA"
        sellAt5(i, q) == trades[i].side = "SELL" /\ trades[i].qty = Some(q)
                           /\ trades[i].ts = Some(Day5) /\ trades[i].asset = "AAA"
    IN  /\ \A k \in 1..Len(ms) :
             /\ ms[k].used > 0
             /\ trades[ms[k].buy].side = "BUY" /\ trades[ms[k].sell].side = "SELL"
             /\ ms[k].days =
                  Rat(Val(trades[ms[k].sell].ts) - Val(trades[ms[k].buy].ts), SecPerDay)
        /\ \A k, l \in 1..Len(ms) :
             (ms[k].buy = ms[l].buy /\ ms[k].sell = ms[l].sell) => k = l
        /\ userMetrics.avg_holding_period_days =
             (IF ~hasSell \/ Len(ms) = 0 THEN Null
              ELSE Some(Rat(C9_SumSeconds(ms, 1), SecPerDay * Len(ms))))
        /\ (buy10 /\ Len(trades) = 2 /\ sellAt5(2, 10)) =>
             /\ Len(ms) = 1 /\ ms[1].days = RInt(5)
             /\ userMetrics.avg_holding_period_days = Some(RInt(5))
        /\ (buy10 /\ Len(trades) = 3 /\ sellAt5(2, 4) /\ sellAt5(3, 6)) =>
             /\ Len(ms) = 2 /\ ms[1].buy = 1 /\ ms[2].buy = 1

\* C9 witness: BUY 10 on day 0, then SELL 4 and SELL 6 on day 5, averaging 5
\* days.
C9_Witness ==
  /\ MetricsDone
  /\ Len(trades) = 3
  /\ trades[1].side = "BUY" /\ trades[1].qty = Some(10) /\ trades[1].ts = Some(0)
  /\ trades[2].side = "SELL" /\ trades[2].qty = Some(4) /\ trades[2].ts = Some(Day5)
  /\ trades[3].side = "SELL" /\ trades[3].qty = Some(6) /\ trades[3].ts = Some(Day5)
  /\ \A i \in 1..3 : trades[i].asset = "AAA"
  /\ Len(C9_Matches) = 2
  /\ userMetrics.avg_holding_period_days = Some(RInt(5))

\* a rational cut to [0,1]
C10_Unit(x) == IF x.n < 0 THEN RInt(0) ELSE IF x.n > x.d THEN RInt(1) ELSE x

C10_InUnit(x) == 0 <= x.n /\ x.n <= x.d

\* C10: normalizeMetrics returns trade_frequency/20, avg_trade_size/5000 and
\* trade_size_variability/5000 cut to [0,1], holding_period =
\* avg_holding_period_days/90 and after_loss = pct_trades_after_loss cut to
\* [0,1], the last two null exactly when the raw metric is null; every output
\* is null or within [0,1] however large the raw metric (avg_trade_size
\* 10,000,000 -> 1).
C10_NormalizedRanges ==
  pc = "normalized" =>
    LET m == userMetrics
        nm == normalizedMetrics
    IN  /\ nm.trade_frequency = C10_Unit(Rat(m.trade_frequency.n, m.trade_frequency.d * 20))
        /\ nm.avg_trade_size = C10_Unit(Rat(m.avg_trade_size.n, m.avg_trade_size.d * 5000))
        /\ nm.size_variability.sq =
             C10_Unit(Rat(m.trade_size_variability.sq.n,
                          m.trade_size_variability.sq.d * 5000 * 5000))
        /\ IsNull(nm.holding_period) <=> IsNull(m.avg_holding_period_days)
        /\ IsNull(nm.after_loss) <=> IsNull(m.pct_trades_after_loss)
        /\ ~IsNull(m.avg_holding_period_days) =>
             Val(nm.holding_period) =
               C10_Unit(Rat(Val(m.avg_holding_period_days).n,
                            Val(m.avg_holding_period_days).d * 90))
        /\ ~IsNull(m.pct_trades_after_loss) =>
             Val(nm.after_loss) = C10_Unit(Val(m.pct_trades_after_loss))
        /\ C10_InUnit(nm.trade_frequency)
        /\ C10_InUnit(nm.avg_trade_size)
        /\ C10_InUnit(nm.size_variability.sq)
        /\ IsNull(nm.holding_period) \/ C10_InUnit(Val(nm.holding_period))
        /\ IsNull(nm.after_loss) \/ C10_InUnit(Val(nm.after_loss))
        /\ m.avg_trade_size = RInt(10000000) => nm.avg_trade_size = RInt(1)

\* C10 witness: a raw avg_trade_size of 10,000,000 normalized to 1, with a
\* null holding period kept null.
C10_Witness ==
  /\ pc = "normalized"
  /\ userMetrics.avg_trade_size = RInt(10000000)
  /\ normalizedMetrics.avg_trade_size = RInt(1)
  /\ IsNull(userMetrics.avg_holding_period_days)
  /\ IsNull(normalizedMetrics.holding_period)

\* the squared gap on key k, a missing component read as 0
C11_Sq(k) ==
  LET a == IF IsNull(userVec[k]) THEN RInt(0) ELSE Val(userVec[k])
      b == IF IsNull(investorVec[k]) THEN RInt(0) ELSE Val(investorVec[k])
  IN  RMul(RSub(a, b), RSub(a, b))

\* rms * rms of the two vectors of the state
C11_MeanSq ==
  RDivInt(RAdd(RAdd(C11_Sq("trade_frequency"), C11_Sq("holding_patience")),
               RAdd(C11_Sq("risk_reactivity"), C11_Sq("consistency"))), 4)

\* C11: alignmentScore takes rms = sqrt(sum over the four keys of
\* (user[k] - target[k])^2 / 4), a missing key read as 0, and returns
\* score = round((1 - min(1, rms)) * 100), an integer in 0..100 (a tie going
\* up); identical vectors give score 100 with every gap diff 0, and
\* (0,0,0,0) against (1,1,1,1) gives score 0.
C11_AlignmentScore ==
  pc = "aligned" =>
    LET m2 == IF RLeq(RInt(1), C11_MeanSq) THEN RInt(1) ELSE C11_MeanSq
        s == alignment.score
        upper == Rat(201 - 2 * s, 200)
        lower == Rat(199 - 2 * s, 200)
        zero == Some(RInt(0))
        one == Some(RInt(1))
    IN  /\ s \in 0..100
        \* s - 1/2 <= 100 * (1 - min(1, rms)) < s + 1/2
        /\ RLeq(m2, RMul(upper, upper))
        /\ lower.n < 0 \/ RLt(RMul(lower, lower), m2)
        /\ userVec = investorVec =>
             /\ s = 100
             /\ \A i \in 1..4 : alignment.gaps[i].diff = zero
        /\ ( /\ userVec = [trade_frequency |-> zero, holding_patience |-> zero,
                           risk_reactivity |-> zero, consistency |-> zero]
             /\ investorVec = [trade_frequency |-> one, holding_patience |-> one,
                               risk_reactivity |-> one, consistency |-> one] )
           => s = 0

\* C11 witness: a user vector a quarter off on one key against an investor
\* vector that lacks the consistency key: rms 0.125, 87.5 rounded up to 88.
C11_Witness ==
  /\ pc = "aligned"
  /\ investorVec.consistency = Null
  /\ alignment.gaps[1].diff = Some(Rat(1, 4))
  /\ alignment.score = 88

\* C12: alignmentScore(u, t).score = alignmentScore(t, u).score, and each gap
\* diff of (u, t) is the negation of the gap diff of (t, u) on the same key
\* (both are NaN where a key is missing).
C12_Symmetric ==
  pc = "aligned" =>
    LET back == alignmentScore(investorVec, userVec)
    IN  /\ back.score = alignment.score
        /\ \A i \in 1..4 :
             IF IsNull(alignment.gaps[i].diff) THEN IsNull(back.gaps[i].diff)
             ELSE /\ ~IsNull(back.gaps[i].diff)
                  /\ Val(back.gaps[i].diff) = RNeg(Val(alignment.gaps[i].diff))

\* C12 witness: gaps of both signs and a score strictly inside 0..100.
C12_Witness ==
  /\ pc = "aligned"
  /\ alignment.score \in 1..99
  /\ \E i \in 1..4 : /\ ~IsNull(alignment.gaps[i].diff)
                     /\ Val(alignment.gaps[i].diff).n > 0
  /\ \E i \in 1..4 : /\ ~IsNull(alignment.gaps[i].diff)
                     /\ Val(alignment.gaps[i].diff).n < 0

VectorDone == pc \in {"vector", "again"}

\* 0 <= x <= 1 for a rational x
C13_InUnit(x) == RLeq(RInt(0), x) /\ RLeq(x, RInt(1))

\* 0 <= base - sqrt(sq) <= 1
C13_SurdInUnit(c) ==
  /\ RLeq(RInt(0), c.sq) /\ RLeq(RInt(0), c.base)
  /\ RLeq(c.sq, RMul(c.base, c.base))
  /\ RLeq(c.base, RInt(1))

\* C13: computeUserVector returns four components, each in [0,1], for every
\* trade sequence and every pair of bias scores in 0..100.
C13_VectorInUnitCube ==
  VectorDone =>
    /\ ~userVector.raised
    /\ C13_InUnit(userVector.value.trade_frequency)
    /\ C13_InUnit(userVector.value.holding_patience)
    /\ C13_InUnit(userVector.value.risk_reactivity)
    /\ C13_SurdInUnit(userVector.value.consistency)

\* the days on which the sequence has trades
C14_Days == {DayOf(trades[i]) : i \in 1..Len(trades)}

C14_CountOn(d) == Cardinality({i \in 1..Len(trades) : DayOf(trades[i]) = d})

RECURSIVE C14_SumSquares(_)
\* the sum of the squared per-day counts over the days D
C14_SumSquares(D) ==
  IF D = {} THEN 0
  ELSE LET d == CHOOSE x \in D : TRUE
       IN  C14_CountOn(d) * C14_CountOn(d) + C14_SumSquares(D \ {d})

\* C14: where computeUserVector returns, trade_frequency = min(1, mean
\* trades per day / 20), holding_patience = clamp01(1 - 0.6 * overtrading/100
\* - 0.4 * revenge/100), risk_reactivity = revenge/100, and consistency =
\* clamp01(1 - populationStddev(daily counts) / 10) for 2 or more days and
\* exactly 0.7 for fewer.
C14_UserVector ==
  (VectorDone /\ ~userVector.raised) =>
    LET n == Cardinality(C14_Days)
        v == userVector.value
        perDay == IF n = 0 THEN RInt(0) ELSE Rat(Len(trades), n)
        \* the population variance as mean of squares minus squared mean
        var == IF n = 0 THEN RInt(0)
               ELSE RSub(Rat(C14_SumSquares(C14_Days), n), RMul(perDay, perDay))
        patience == Rat(1000 - 6 * biases.overtrading.score
                             - 4 * biases.revenge.score, 1000)
    IN  /\ v.trade_frequency =
             (IF RLeq(RInt(20), perDay) THEN RInt(1) ELSE RDivInt(perDay, 20))
        /\ v.holding_patience = (IF patience.n < 0 THEN RInt(0) ELSE patience)
        /\ v.risk_reactivity = Rat(biases.revenge.score, 100)
        /\ n < 2 => v.consistency = [base |-> Rat(7, 10), sq |-> RInt(0)]
        /\ (n >= 2 /\ RLt(var, RInt(100))) =>
             /\ v.consistency.base = RInt(1)
             /\ RMul(v.consistency.sq, RInt(100)) = var
        /\ (n >= 2 /\ RLeq(RInt(100), var)) =>
             v.consistency = [base |-> RInt(0), sq |-> RInt(0)]

\* C14 witness: days of 2 and 10 trades: mean 6, variance 16, so
\* trade_frequency 0.3 and consistency 1 - 0.4.
C14_Witness ==
  /\ VectorDone
  /\ ~userVector.raised
  /\ TradesPerDay(trades) = <<2, 10>>
  /\ userVector.value.trade_frequency = Rat(3, 10)
  /\ userVector.value.consistency = [base |-> RInt(1), sq |-> Rat(4, 25)]

C16_Sparse ==
  /\ \A i \in 1..Len(trades) : ValidTs(trades[i])
  /\ \/ Len(trades) <= 1
     \/ Cardinality({DayOf(trades[i]) : i \in 1..Len(trades)}) = 1
     \/ \A i \in 1..Len(trades) : IsNull(trades[i].pl)
     \/ \A i \in 1..Len(trades) : trades[i].side # "SELL"

\* C16: on valid-but-sparse input computeBiases, computeUserMetrics,
\* normalizeMetrics, computeUserVector, alignmentScore and chartData all
\* return a defined result and none raises.
C16_SparseDefined ==
  (VectorDone /\ C16_Sparse) =>
    /\ biases.overtrading.score \in 0..100
    /\ biases.revenge.score \in 0..100
    /\ biases.lossAversion.score \in 0..100
    /\ userMetrics # NoResult
    /\ normalizedMetrics # NoResult
    /\ ~chart.raised
    /\ Len(chart.value.timeline) = Len(trades)
    /\ ~userVector.raised
    /\ DOMAIN userVector.value = {Keys[i] : i \in 1..4}
    /\ \A iv \in [trade_frequency : TargetSet, holding_patience : TargetSet,
                  risk_reactivity : TargetSet, consistency : TargetSet] :
         ~alignmentScoreRaises(userVector.value, iv)

\* C16 witness: the empty sequence went through every call.
C16_Witness ==
  /\ pc = "again"
  /\ trades = <<>>
  /\ ~chart.raised
  /\ ~userVector.raised
  /\ userVector.value.consistency = [base |-> Rat(7, 10), sq |-> RInt(0)]

\* C17: a trade whose timestamp cannot be parsed is counted in no day
\* bucket of the chart, and its presence makes neither computeUserVector nor
\* chartData (nor computeBiases, computeUserMetrics) raise an error.
C17_InvalidTimestampSkipped ==
  (VectorDone /\ \E i \in 1..Len(trades) : ~ValidTs(trades[i])) =>
    /\ ~chart.raised
    /\ ~userVector.raised
    /\ SumSeq([j \in 1..Len(chart.value.tradesPerDay) |->
                 chart.value.tradesPerDay[j].count])
         = Cardinality({i \in 1..Len(trades) : ValidTs(trades[i])})

\* C18: in the output of computeBiases a score greater than 0 comes with at
\* least one evidence record, for overtrading, revenge and lossAversion.
C18_ScoreHasEvidence ==
  BiasesDone =>
    /\ biases.overtrading.score > 0 => biases.overtrading.evidence # <<>>
    /\ biases.revenge.score > 0 => biases.revenge.evidence # <<>>
    /\ biases.lossAversion.score > 0 => biases.lossAversion.evidence # <<>>

\* C18 as the code has it: a revenge or loss-aversion score greater than 0
\* comes with evidence; overtrading evidence is non-empty on every
\* single-day dataset and, over two or more days, exactly when the busiest
\* day has at least twice the median daily count, which is always so when
\* the score exceeds 50.
C18_EvidenceRule ==
  BiasesDone =>
    LET counts == TradesPerDay(trades)
        over == biases.overtrading
    IN  /\ biases.revenge.score > 0 => biases.revenge.evidence # <<>>
        /\ biases.lossAversion.score > 0 => biases.lossAversion.evidence # <<>>
        /\ Len(counts) = 1 => over.evidence # <<>>
        /\ Len(counts) >= 2 =>
             (over.evidence # <<>> <=>
                RLeq(RMul(RInt(2), C3_Median(counts)), RInt(MaxSeq(counts))))
        /\ over.score > 50 => over.evidence # <<>>

\* C18 witness: days of 1, 1 and 2 trades: the busiest day is exactly twice
\* the median, score 50 with one evidence record.
C18_Witness ==
  /\ BiasesDone
  /\ TradesPerDay(trades) = <<1, 1, 2>>
  /\ biases.overtrading.score = 50
  /\ Len(biases.overtrading.evidence) = 1

\* every trade of the list was uploaded in session s
C19_OwnedBy(rows, s) == \A i \in 1..Len(rows) : rows[i].owner = s

\* the nullable source src is absent or is session s
C19_From(src, s) == IsNull(src) \/ Val(src) = s

\* C19: whatever the interleaving of uploads, refreshes, analyses and
\* comparisons, what is kept or returned under a session id was computed
\* from that session's trades only.
C19_SessionIsolation ==
  /\ \A s \in DOMAIN sessionTrades : C19_OwnedBy(sessionTrades[s], s)
  /\ \A s \in DOMAIN store : C19_OwnedBy(store[s], s)
  /\ \A s \in DOMAIN sessionPortfolioMetrics : sessionPortfolioMetrics[s] = s
  /\ lastUserTradesResult # NoResult =>
       /\ lastUserTradesResult.metrics.portfolio = lastUserTradesResult.sessionId
       /\ lastUserTradesResult.metrics.revenge = lastUserTradesResult.sessionId
       /\ lastUserTradesResult.normalizedPath = lastUserTradesResult.sessionId
  /\ response # NoResult =>
       /\ C19_From(response.portfolio, response.sessionId)
       /\ C19_From(response.revenge, response.sessionId)
       /\ C19_OwnedBy(response.trades, response.sessionId)

\* C20: once an upload kept at least one normalized trade of a session in
\* memory, getTradesForSession returns a non-empty list for it: exactly the
\* in-memory trades when the store cannot be reached or returns no rows, and
\* the store's list when that is non-empty.
C20_MemoryFallback ==
  (got # NoResult /\ got.inMemory) =>
    /\ Len(got.trades) > 0
    /\ (IsNull(got.fetched) \/ Val(got.fetched) = <<>>) =>
         got.trades = got.memory
    /\ (~IsNull(got.fetched) /\ Val(got.fetched) # <<>>) =>
         got.trades = Val(got.fetched)

\* C20 witness: the store answered with no rows (nothing persisted yet) and
\* the two uploaded trades came back from memory in file order.
C20_Witness ==
  /\ got # NoResult
  /\ got.inMemory
  /\ ~IsNull(got.fetched)
  /\ Val(got.fetched) = <<>>
  /\ Len(got.trades) = 2
  /\ got.trades = got.memory

\* C21: scoreAgainstInvestors returns one entry per input investor, none
\* dropped or duplicated, each with the alignment of the user vector and
\* that investor's vector, ordered from the highest score to the lowest.
C21_Ranked ==
  pc = "ranked" =>
    /\ Len(scored) = Len(investors)
    /\ {scored[p].investorId : p \in 1..Len(scored)} = 1..Len(investors)
    /\ \A p \in 1..Len(scored) :
         LET inv == investors[scored[p].investorId]
         IN  /\ scored[p].investorVector = inv.vector
             /\ scored[p].alignment = alignmentScore(userVec, inv.vector)
    /\ \A p \in 1..(Len(scored) - 1) :
         scored[p].alignment.score >= scored[p + 1].alignment.score

\* C21 witness: three investors given worst first, two of them tied, come
\* back best first.
C21_Witness ==
  /\ pc = "ranked"
  /\ Len(scored) = 3
  /\ scored[1].investorId = 3
  /\ scored[1].alignment.score > scored[2].alignment.score
  /\ scored[2].alignment.score = scored[3].alignment.score
  /\ scored[2].investorId = 1

\* C22: chartData reports hasPL = true, and takes each per-trade value from
\* pl, exactly when more than half of the trades have a non-null pl;
\* otherwise each per-trade value is the notional.
C22_MajorityHasPL ==
  (pc \in {"chart", "vector", "again"} /\ ~chart.raised) =>
    LET withPl == Cardinality({i \in 1..Len(trades) : ~IsNull(trades[i].pl)})
        majority == 2 * withPl > Len(trades)
    IN  /\ chart.value.hasPL <=> majority
        /\ \A i \in 1..Len(trades) :
             chart.value.timeline[i].value =
               (IF majority THEN NumberOrZero(trades[i].pl)
                ELSE NumberOrZero(trades[i].notional))

\* trade i is not after trade j in time order (equal timestamps in the
\* order of the sequence)
C23_NotAfter(i, j) ==
  \/ Val(trades[i].ts) < Val(trades[j].ts)
  \/ Val(trades[i].ts) = Val(trades[j].ts) /\ i <= j

\* the per-trade value of trade i: pl or notional, a missing one counted 0
C23_Value(i) ==
  LET x == IF chart.value.hasPL THEN trades[i].pl ELSE trades[i].notional
  IN  IF IsNull(x) THEN 0 ELSE Val(x)

\* the sum of the per-trade values of the trades in I
C23_Sum(I) ==
  LET RECURSIVE In(_, _)
      In(lo, hi) ==
        IF lo > hi THEN 0
        ELSE IF lo = hi THEN (IF lo \in I THEN C23_Value(lo) ELSE 0)
        ELSE In(lo, (lo + hi) \div 2) + In((lo + hi) \div 2 + 1, hi)
  IN  In(1, Len(trades))

C24_IsLot(i) ==
  /\ trades[i].side = "BUY" /\ ValidTs(trades[i])
  /\ trades[i].asset # "" /\ ~IsNull(trades[i].qty) /\ Val(trades[i].qty) > 0

RECURSIVE C24_Drawn(_, _, _)
\* the quantity drawn from the lot of trade b by the first k draws
C24_Drawn(ms, b, k) ==
  IF k = 0 THEN 0
  ELSE (IF ms[k].buy = b THEN ms[k].used ELSE 0) + C24_Drawn(ms, b, k - 1)

\* C24: the lots of an asset are consumed first in, first out: a SELL draws
\* from a lot only when every lot pushed earlier for the same asset is
\* exhausted, never from a lot of another asset, a lot larger than the
\* remaining sell quantity is reduced and stays in the queue, and the total
\* drawn from a lot never exceeds the quantity bought in it.
C24_FirstInFirstOut ==
  MetricsDone =>
    LET r == MatchLots(trades)
        ms == r.matches
        qty(i) == Val(trades[i].qty)
    IN  /\ \A k \in 1..Len(ms) :
             LET b == ms[k].buy
             IN  /\ C24_IsLot(b)
                 /\ b < ms[k].sell
                 /\ trades[b].asset = trades[ms[k].sell].asset
                 /\ ms[k].used > 0
                 /\ C24_Drawn(ms, b, k) <= qty(b)
                 /\ \A e \in 1..(b - 1) :
                      (C24_IsLot(e) /\ trades[e].asset = trades[b].asset)
                        => C24_Drawn(ms, e, k - 1) = qty(e)
        /\ \A b \in 1..Len(trades) :
             C24_IsLot(b) =>
               LET left == qty(b) - C24_Drawn(ms, b, Len(ms))
                   queue == QueueOf(r.lots, trades[b].asset)
                   kept == {p \in 1..Len(queue) : queue[p].tradeId = b}
               IN  IF left > 0
                   THEN \E p \in kept : kept = {p} /\ queue[p].qty = left
                   ELSE kept = {}

\* C24 witness: lots of 4 and 10, then a SELL of 6: all of the first lot,
\* 2 of the second, which stays in the queue with 8.
C24_Witness ==
  /\ MetricsDone
  /\ Len(trades) = 3
  /\ C24_IsLot(1) /\ trades[1].qty = Some(4)
  /\ C24_IsLot(2) /\ trades[2].qty = Some(10)
  /\ trades[3].side = "SELL" /\ trades[3].qty = Some(6)
  /\ LET r == MatchLots(trades)
     IN  /\ Len(r.matches) = 2
         /\ r.matches[1].buy = 1 /\ r.matches[1].used = 4
         /\ r.matches[2].buy = 2 /\ r.matches[2].used = 2
         /\ Len(r.lots["AAA"]) = 1
         /\ r.lots["AAA"][1].qty = 8

\* the points the view marks as bias trades: biasMeta.has(p.iso)
C25_Classified == {p \in 1..Len(points) : points[p].iso \in DOMAIN biasMeta}

\* C25: exactly min(5, L) points are classified, L being the number of
\* points with a negative trade value, namely those with the most negative
\* values, and each gets one of the four labels.
C25_WorstFiveClassified ==
  pc = "bias" =>
    LET losses == {p \in 1..Len(points) : points[p].tradeValue < 0}
    IN  /\ Cardinality(C25_Classified) = Min(5, Cardinality(losses))
        /\ C25_Classified \subseteq losses
        /\ \A p \in C25_Classified : \A q \in losses \ C25_Classified :
             points[p].tradeValue <= points[q].tradeValue
        /\ \A iso \in DOMAIN biasMeta :
             biasMeta[iso] \in {"Panic sell", "Revenge trade", "FOMO buy",
                                "High-stress trade"}

\* C26: a worst-loss point whose immediately preceding point in time order
\* is a loss no more than 15 minutes earlier is a Revenge trade; of the
\* others a SELL is a Panic sell, a BUY a FOMO buy, any other side a
\* High-stress trade.
C26_Labels ==
  pc = "bias" =>
    \A p \in C25_Classified :
      points[p].tradeValue < 0 =>
        biasMeta[points[p].iso] =
          (IF /\ p > 1
              /\ points[p - 1].tradeValue < 0
              /\ points[p].iso - points[p - 1].iso <= 15 * 60
           THEN "Revenge trade"
           ELSE IF points[p].side = "SELL" THEN "Panic sell"
           ELSE IF points[p].side = "BUY" THEN "FOMO buy"
           ELSE "High-stress trade")

\* C27: on every key the reported gap diff is the difference (user value -
\* target value) that entered the score, a missing key counted as 0 on
\* either side, and is never NaN.
C27_GapDiffDefined ==
  pc = "aligned" =>
    \A i \in 1..4 :
      LET k == alignment.gaps[i].k
          a == IF IsNull(userVec[k]) THEN RInt(0) ELSE Val(userVec[k])
          b == IF IsNull(investorVec[k]) THEN RInt(0) ELSE Val(investorVec[k])
      IN  /\ ~IsNull(alignment.gaps[i].diff)
          /\ Val(alignment.gaps[i].diff) = RSub(a, b)

\* the score of the band a loss/win ratio falls in
C28_Band(r) ==
  IF RLeq(r, Rat(105, 100)) THEN 0
  ELSE IF RLeq(r, Rat(3, 2)) THEN 30
  ELSE IF RLeq(r, RInt(2)) THEN 60
  ELSE IF RLeq(r, RInt(3)) THEN 85
  ELSE 100

\* C28: with sufficient data the lossWinRatio recorded in the loss-aversion
\* evidence lies in the ratio band of the reported score; a score of 100
\* never comes with a recorded ratio of 0.
C28_EvidenceMatchesScore ==
  (BiasesDone /\ ~biases.lossAversion.insufficientData) =>
    LET ev == biases.lossAversion.evidence[1]
    IN  /\ C28_Band(ev.lossWinRatio) = biases.lossAversion.score
        /\ biases.lossAversion.score = 100 => ev.lossWinRatio # RInt(0)

\* C29: once the response of a request is sent, no store connection opened
\* while handling it is still open, whether it succeeded, answered 404 for a
\* session without trades, or failed in a query or in
\* persistSessionToSnowflake.
C29_ConnectionsDestroyed ==
  (req # NoResult /\ req.status # 0) => (~req.own /\ ~req.inner)

\* what the loop body makes of one reply, read off the reply itself
C30_Kind(reply) ==
  IF reply.threw
  THEN IF isOverloadError(reply.message) THEN "overload" ELSE "error"
  ELSE LET parsed == parseJsonFromText(reply.text)
       IN  IF IsNull(parsed) THEN "unparseable"
           ELSE IF Truthy(Val(parsed).investor)
                   /\ Val(parsed).summary.type = "string"
           THEN "valid" ELSE "unparseable"

C30_Bounded ==
  /\ coach.attempt \in 1..MaxAttempts
  /\ coach.m \in 1..Len(modelFallbacks)
  /\ coach.calls <= MaxAttempts * Len(modelFallbacks)
  /\ coach.done =>
       /\ ~IsNull(coach.result)
       /\ Val(coach.result).kind \in {"mock", "fallback"} =>
            Val(coach.result).alignmentScore = coach.score
       /\ coach.mock => coach.calls = 0 /\ Val(coach.result).kind = "mock"
       /\ ~coach.mock =>
            IF C30_Kind(Val(coach.reply)) = "valid"
            THEN /\ Val(coach.result).kind = "reply"
                 /\ Val(coach.result).investor # ""
            ELSE /\ Val(coach.result).kind = "fallback"
                 /\ coach.m = Len(modelFallbacks)

C30_Step ==
  (~coach.mock /\ coach' # coach) =>
    LET kind == C30_Kind(Val(coach'.reply))
    IN  /\ ~coach.done
        /\ coach'.calls = coach.calls + 1
        /\ kind = "valid" <=> (coach'.done /\ Val(coach'.result).kind = "reply")
        /\ kind = "valid" => coach'.m = coach.m
        /\ (~coach'.done /\ coach'.m = coach.m) =>
             /\ kind \in {"overload", "unparseable"}
             /\ coach'.attempt = coach.attempt + 1
        /\ (~coach'.done /\ coach'.m # coach.m) =>
             /\ coach'.m = coach.m + 1 /\ coach'.attempt = 1
             /\ kind = "error" \/ coach.attempt = MaxAttempts
        /\ kind = "error" =>
             IF coach.m < Len(modelFallbacks)
             THEN coach'.m = coach.m + 1 /\ ~coach'.done
             ELSE coach'.done /\ Val(coach'.result).kind = "fallback"

====
